---- MODULE Spec2Model ----
(***************************************************************************)
(* A state-machine model of aisearch-v2: the three frontier structures of  *)
(* src/PriorityQueue.py (PriorityQueue, Queue, Stack) and the search       *)
(* strategies that run on them.                                            *)
(*                                                                         *)
(* Python objects are modelled by value: a PriorityQueue is the record     *)
(* [heap, counter, entry_finder]; a heap entry [priority, count, node] is  *)
(* identified by its count, which push never reuses, so entry_finder maps  *)
(* a node to the count of its entry (the identity of the list object the   *)
(* dict holds) and "entry[-1] = REMOVED" rewrites the heap entry with that *)
(* count.  Python's 0-based list positions are kept in the heap routines;  *)
(* position p of a list is element p + 1 of the sequence.                  *)
(***************************************************************************)
EXTENDS Integers, Sequences, FiniteSets, TLC

VARIABLES
    pq,        \* the PriorityQueue object: [heap, counter, entry_finder]
    queue,     \* Queue.items
    stack,     \* Stack.items
    live,      \* reference: item -> [priority, seq] of its latest push, if not popped/removed since
    tomb,      \* reference: the pushes [seq, node] whose entry was removed or superseded
    npush,     \* reference: the number of pushes so far
    popped,    \* the count of every entry pop returned, in order
    pushed,    \* reference: every item pushed on queue / stack, in order
    taken,     \* reference: positions of `pushed` already popped
    outs,      \* reference: items popped from queue / stack, in order
    last,      \* the last call: its name, arguments, result and what the reference expected
    graph,     \* Node.neighbors of every vertex: the [to, w] edges in insertion order
    heur,      \* Node.heuristic of every vertex
    run,       \* what start_search hands the agent: [algo, source, goal, depth]
    sa,        \* the search agent: its reported fields and the state its generator keeps
    gv         \* the GraphVisualizer: the graph it edits, its undo / redo stacks, its search replay

pqVars == <<pq, live, tomb, npush, popped>>
fsVars == <<queue, stack, pushed, taken, outs>>
searchVars == <<graph, heur, run, sa, gv>>
vars == <<pq, queue, stack, live, tomb, npush, popped, pushed, taken, outs, last,
          graph, heur, run, sa, gv>>

(***************************************************************************)
(* Bounds of the model.                                                    *)
(***************************************************************************)
NumItems == 2      \* items pushed on a frontier structure are 1..NumItems
MaxPrio == 1       \* priorities are 0..MaxPrio
MaxPush == 3       \* pushes per structure in one run

Items == 1..NumItems
Prios == 0..MaxPrio

NONE == -2         \* Python's None
REMOVED == -1      \* self.REMOVED, the tombstone placed in entry[-1]

(***************************************************************************)
(* heapq on lists of entries.  Entries are Python lists [priority, count,  *)
(* node] and compare lexicographically; counts are unique within a heap,   *)
(* so the comparison is decided by (priority, count).                      *)
(***************************************************************************)
EntryLess(a, b) ==
    \/ a.priority < b.priority
    \/ a.priority = b.priority /\ a.count < b.count

RECURSIVE Siftdown(_, _, _, _)
Siftdown(h, startpos, pos, newitem) ==
    IF pos > startpos
    THEN LET parentpos == (pos - 1) \div 2
             parent == h[parentpos + 1]
         IN  IF EntryLess(newitem, parent)
             THEN Siftdown([h EXCEPT ![pos + 1] = parent], startpos, parentpos, newitem)
             ELSE [h EXCEPT ![pos + 1] = newitem]
    ELSE [h EXCEPT ![pos + 1] = newitem]

RECURSIVE Siftup(_, _, _, _)
Siftup(h, startpos, pos, newitem) ==
    LET endpos == Len(h)
        childpos == 2 * pos + 1
    IN  IF childpos < endpos
        THEN LET rightpos == childpos + 1
                 c == IF rightpos < endpos /\ ~EntryLess(h[childpos + 1], h[rightpos + 1])
                      THEN rightpos ELSE childpos
             IN  Siftup([h EXCEPT ![pos + 1] = h[c + 1]], startpos, c, newitem)
        ELSE Siftdown([h EXCEPT ![pos + 1] = newitem], startpos, pos, newitem)

heappush(h, item) == Siftdown(Append(h, item), 0, Len(h), item)

\* heappop on a non-empty heap: [heap |-> the heap left, item |-> the entry removed]
heappop(h) ==
    LET lastelt == h[Len(h)]
        rest == SubSeq(h, 1, Len(h) - 1)
    IN  IF rest # <<>>
        THEN [heap |-> Siftup([rest EXCEPT ![1] = lastelt], 0, 0, lastelt), item |-> h[1]]
        ELSE [heap |-> rest, item |-> lastelt]

(***************************************************************************)
(* PriorityQueue                                                           *)
(***************************************************************************)
Without(f, k) == [x \in DOMAIN f \ {k} |-> f[x]]

PQNew == [heap |-> <<>>, counter |-> 0, entry_finder |-> <<>>]

\* a slip a remove could make: the entry is tombstoned but its key stays in entry_finder
PQRemoveKeepsKey(q, node) ==
    LET c == q.entry_finder[node]
    IN  [q EXCEPT !.heap = [i \in DOMAIN q.heap |->
                               IF q.heap[i].count = c
                               THEN [q.heap[i] EXCEPT !.node = REMOVED]
                               ELSE q.heap[i]]]

\* remove(node) for a node of entry_finder; a missing node is a KeyError (PQRemoveCall)
PQRemove(q, node) ==
    LET c == q.entry_finder[node]
    IN  [q EXCEPT !.entry_finder = Without(q.entry_finder, node),
                  !.heap = [i \in DOMAIN q.heap |->
                               IF q.heap[i].count = c
                               THEN [q.heap[i] EXCEPT !.node = REMOVED]
                               ELSE q.heap[i]]]

\* a slip a remove could make: a missing node is passed over in silence
PQRemoveCallSilent(q, node) ==
    IF node \in DOMAIN q.entry_finder
    THEN [pq |-> PQRemove(q, node), err |-> "", ret |-> NONE, count |-> NONE]
    ELSE [pq |-> q, err |-> "", ret |-> NONE, count |-> NONE]

PQRemoveCall(q, node) ==
    IF node \in DOMAIN q.entry_finder
    THEN [pq |-> PQRemove(q, node), err |-> "", ret |-> NONE, count |-> NONE]
    ELSE [pq |-> q, err |-> "KeyError", ret |-> NONE, count |-> NONE]

\* a slip a push could make: the old entry of the node is left live in the heap
PQPushKeepsOld(q, node, priority) ==
    LET entry == [priority |-> priority, count |-> q.counter, node |-> node]
    IN  [heap |-> heappush(q.heap, entry),
         counter |-> q.counter + 1,
         entry_finder |-> (node :> q.counter) @@ q.entry_finder]

\* a slip a push could make: the entry is built [count, priority, node]
PQPushCountFirst(q, node, priority) ==
    LET q1 == IF node \in DOMAIN q.entry_finder THEN PQRemove(q, node) ELSE q
        entry == [priority |-> q1.counter, count |-> q1.counter, node |-> node]
    IN  [heap |-> heappush(q1.heap, entry),
         counter |-> q1.counter + 1,
         entry_finder |-> (node :> q1.counter) @@ q1.entry_finder]

PQPush(q, node, priority) ==
    LET q1 == IF node \in DOMAIN q.entry_finder THEN PQRemove(q, node) ELSE q
        count == q1.counter
        entry == [priority |-> priority, count |-> count, node |-> node]
    IN  [heap |-> heappush(q1.heap, entry),
         counter |-> count + 1,
         entry_finder |-> (node :> count) @@ q1.entry_finder]

\* a slip a pop could make: the tombstone test is left out
PQPopNoSkip(q) ==
    IF q.heap = <<>>
    THEN [pq |-> q, err |-> "KeyError", ret |-> NONE, count |-> NONE]
    ELSE LET r == heappop(q.heap)
         IN  [pq |-> [q EXCEPT !.heap = r.heap,
                               !.entry_finder = Without(q.entry_finder, r.item.node)],
              err |-> "", ret |-> r.item.node, count |-> r.item.count]

RECURSIVE PQPop(_)
PQPop(q) ==
    IF q.heap = <<>>
    THEN [pq |-> q, err |-> "KeyError", ret |-> NONE, count |-> NONE]
    ELSE LET r == heappop(q.heap)
             q1 == [q EXCEPT !.heap = r.heap]
         IN  IF r.item.node # REMOVED
             THEN IF r.item.node \in DOMAIN q.entry_finder
                  THEN [pq |-> [q1 EXCEPT !.entry_finder = Without(q.entry_finder, r.item.node)],
                        err |-> "", ret |-> r.item.node, count |-> r.item.count]
                  ELSE [pq |-> q1, err |-> "KeyError", ret |-> NONE, count |-> NONE]
             ELSE PQPop(q1)

\* a slip a peek could make: heap[0] is returned without the tombstone test
PQPeekNoSkip(q) ==
    IF q.heap = <<>>
    THEN [pq |-> q, err |-> "", ret |-> NONE, count |-> NONE]
    ELSE [pq |-> q, err |-> "", ret |-> q.heap[1].node, count |-> q.heap[1].count]

\* a slip a peek could make: the entry it returns is popped off the heap
RECURSIVE PQPeekTakes(_)
PQPeekTakes(q) ==
    IF q.heap = <<>>
    THEN [pq |-> q, err |-> "", ret |-> NONE, count |-> NONE]
    ELSE IF q.heap[1].node # REMOVED
         THEN [pq |-> [q EXCEPT !.heap = heappop(q.heap).heap],
               err |-> "", ret |-> q.heap[1].node, count |-> q.heap[1].count]
         ELSE PQPeekTakes([q EXCEPT !.heap = heappop(q.heap).heap])

RECURSIVE PQPeek(_)
PQPeek(q) ==
    IF q.heap = <<>>
    THEN [pq |-> q, err |-> "", ret |-> NONE, count |-> NONE]
    ELSE IF q.heap[1].node # REMOVED
         THEN [pq |-> q, err |-> "", ret |-> q.heap[1].node, count |-> q.heap[1].count]
         ELSE PQPeek([q EXCEPT !.heap = heappop(q.heap).heap])

\* a slip: the heap is asked, which also holds the tombstones
PQIsEmptyHeap(q) == Len(q.heap) = 0

PQIsEmpty(q) == Cardinality(DOMAIN q.entry_finder) = 0
PQLen(q) == Cardinality(DOMAIN q.entry_finder)
PQContains(q, node) == node \in DOMAIN q.entry_finder

\* the keys of the dict entry_finder in the order a dict iterates, the order in
\* which the keys were inserted: push inserts the key of a node together with a
\* fresh count (after remove has deleted the key of an older entry), so the keys
\* stand in the order of their counts
RECURSIVE DictKeys(_)
DictKeys(ef) ==
    IF DOMAIN ef = {} THEN <<>>
    ELSE LET n == CHOOSE k \in DOMAIN ef : \A m \in DOMAIN ef : ef[k] <= ef[m]
         IN  <<n>> \o DictKeys(Without(ef, n))

IsNode(n) == n # REMOVED

PQGetAllNodes(q) == SelectSeq(DictKeys(q.entry_finder), IsNode)

(***************************************************************************)
(* Queue and Stack                                                         *)
(***************************************************************************)
\* a slip: the list is assigned instead of appended to
QueuePushOverwrite(items, item) == <<item>>

QueuePush(items, item) == Append(items, item)

\* a slip: pop() instead of pop(0)
QueuePopBack(items) ==
    IF Len(items) = 0
    THEN [items |-> items, err |-> "IndexError", ret |-> NONE]
    ELSE [items |-> SubSeq(items, 1, Len(items) - 1), err |-> "", ret |-> items[Len(items)]]

\* a slip: the front item is returned and left in the list
QueuePopKeeps(items) ==
    IF Len(items) = 0 THEN [items |-> items, err |-> "IndexError", ret |-> NONE]
    ELSE [items |-> items, err |-> "", ret |-> items[1]]

QueuePop(items) ==
    IF Len(items) = 0
    THEN [items |-> items, err |-> "IndexError", ret |-> NONE]
    ELSE [items |-> Tail(items), err |-> "", ret |-> Head(items)]

QueueIsEmptyAtOne(items) == Len(items) <= 1

QueueIsEmpty(items) == Len(items) = 0

QueuePeek(items) == IF Len(items) = 0 THEN NONE ELSE items[1]

QueueGetAllNodes(items) == items

StackPush(items, item) == Append(items, item)

\* a slip: pop(0) instead of pop()
StackPopFront(items) ==
    IF Len(items) = 0
    THEN [items |-> items, err |-> "IndexError", ret |-> NONE]
    ELSE [items |-> Tail(items), err |-> "", ret |-> Head(items)]

StackPop(items) ==
    IF Len(items) = 0
    THEN [items |-> items, err |-> "IndexError", ret |-> NONE]
    ELSE [items |-> SubSeq(items, 1, Len(items) - 1), err |-> "", ret |-> items[Len(items)]]

\* a slip: a stack holding one item counts as empty
StackIsEmptyAtOne(items) == Len(items) <= 1

StackIsEmpty(items) == Len(items) = 0

StackPeek(items) == IF Len(items) = 0 THEN NONE ELSE items[Len(items)]

(***************************************************************************)
(* The reference the structures are compared with: which pushes are still  *)
(* outstanding, kept from the history of calls alone.                      *)
(***************************************************************************)
RefBefore(a, b) ==
    \/ a.priority < b.priority
    \/ a.priority = b.priority /\ a.seq < b.seq

\* the outstanding item that is least by (priority, push number); NONE if there is none
RefMin(lv) ==
    IF DOMAIN lv = {} THEN NONE
    ELSE CHOOSE n \in DOMAIN lv : \A m \in DOMAIN lv \ {n} : RefBefore(lv[n], lv[m])

RECURSIVE RefOrder(_)
RefOrder(lv) ==
    IF DOMAIN lv = {} THEN <<>>
    ELSE <<RefMin(lv)>> \o RefOrder(Without(lv, RefMin(lv)))

\* the items a queue yields when it is popped until it raises
RECURSIVE DrainOrder(_)
DrainOrder(q) ==
    LET r == PQPop(q)
    IN  IF r.err # "" THEN <<>> ELSE <<r.ret>> \o DrainOrder(r.pq)

\* the record of a call: node and priority are its arguments (for pop and peek, the
\* priority the reference holds for the item it expects), ret / err / count what the
\* code returned, raised and unpacked; expect the reference's answer, retSeq the push
\* number of the live entry of the returned item, oldPriority / lenBefore / wasLive
\* the reference's view of the argument before the call
NoCall == [op |-> "init", node |-> NONE, priority |-> NONE, ret |-> NONE, err |-> "",
           count |-> NONE, expect |-> NONE, retSeq |-> NONE, oldPriority |-> NONE,
           lenBefore |-> 0, wasLive |-> FALSE]

SeqOf(lv, n) == IF n \in DOMAIN lv THEN lv[n].seq ELSE NONE
PrioOf(lv, n) == IF n \in DOMAIN lv THEN lv[n].priority ELSE NONE

IdlePQ == pq = PQNew /\ live = <<>> /\ tomb = {} /\ npush = 0 /\ popped = <<>>
IdleFS == queue = <<>> /\ stack = <<>> /\ pushed = <<>> /\ taken = {} /\ outs = <<>>
IdleRef == live = <<>> /\ tomb = {} /\ npush = 0 /\ popped = <<>>
              /\ pushed = <<>> /\ taken = {} /\ outs = <<>> /\ last = NoCall
IdleSearch == graph = <<>> /\ heur = <<>> /\ run = <<>> /\ sa = <<>> /\ gv = <<>>

(***************************************************************************)
(* The priority queue under any sequence of push / remove / pop / peek.    *)
(***************************************************************************)
InitPQ == IdlePQ /\ IdleFS /\ IdleSearch /\ last = NoCall

Push(n, p) ==
    /\ pq.counter < MaxPush
    /\ pq' = PQPush(pq, n, p)
    /\ live' = (n :> [priority |-> p, seq |-> npush]) @@ live
    /\ npush' = npush + 1
    /\ tomb' = IF n \in DOMAIN live THEN tomb \cup {[seq |-> live[n].seq, node |-> n]} ELSE tomb
    /\ last' = [NoCall EXCEPT !.op = "push", !.node = n, !.priority = p,
                              !.oldPriority = PrioOf(live, n),
                              !.lenBefore = Cardinality(DOMAIN live),
                              !.wasLive = n \in DOMAIN live]
    /\ UNCHANGED <<popped, fsVars, searchVars>>

Remove(n) ==
    LET r == PQRemoveCall(pq, n)
    IN  /\ pq' = r.pq
        /\ live' = IF n \in DOMAIN live THEN Without(live, n) ELSE live
        /\ tomb' = IF n \in DOMAIN live THEN tomb \cup {[seq |-> live[n].seq, node |-> n]} ELSE tomb
        /\ last' = [NoCall EXCEPT !.op = "remove", !.node = n, !.err = r.err,
                                  !.oldPriority = PrioOf(live, n),
                                  !.lenBefore = Cardinality(DOMAIN live),
                                  !.wasLive = n \in DOMAIN live]
        /\ UNCHANGED <<npush, popped, fsVars, searchVars>>

Pop ==
    LET r == PQPop(pq)
        m == RefMin(live)
    IN  /\ pq' = r.pq
        /\ live' = IF m = NONE THEN live ELSE Without(live, m)
        /\ popped' = IF r.err = "" THEN Append(popped, r.count) ELSE popped
        /\ last' = [NoCall EXCEPT !.op = "pop", !.ret = r.ret, !.err = r.err,
                                  !.count = r.count, !.expect = m,
                                  !.priority = PrioOf(live, m),
                                  !.retSeq = SeqOf(live, r.ret),
                                  !.lenBefore = Cardinality(DOMAIN live),
                                  !.wasLive = m # NONE]
        /\ UNCHANGED <<tomb, npush, fsVars, searchVars>>

Peek ==
    LET r == PQPeek(pq)
        m == RefMin(live)
    IN  /\ pq' = r.pq
        /\ last' = [NoCall EXCEPT !.op = "peek", !.ret = r.ret, !.err = r.err,
                                  !.count = r.count, !.expect = m,
                                  !.priority = PrioOf(live, m),
                                  !.retSeq = SeqOf(live, r.ret),
                                  !.lenBefore = Cardinality(DOMAIN live),
                                  !.wasLive = m # NONE]
        /\ UNCHANGED <<live, tomb, npush, popped, fsVars, searchVars>>

NextPQ ==
    \/ \E n \in Items, p \in Prios : Push(n, p)
    \/ \E n \in Items : Remove(n)
    \/ Pop
    \/ Peek

SpecPQ == InitPQ /\ [][NextPQ]_vars

(***************************************************************************)
(* The FIFO queue under any interleaving of push / pop / peek.             *)
(***************************************************************************)
Unpopped == (1..Len(pushed)) \ taken
Earliest == CHOOSE i \in Unpopped : \A j \in Unpopped : i <= j
Latest == CHOOSE i \in Unpopped : \A j \in Unpopped : i >= j

InitQueue == IdlePQ /\ IdleFS /\ IdleSearch /\ last = NoCall

QPush(x) ==
    /\ Len(pushed) < MaxPush
    /\ queue' = QueuePush(queue, x)
    /\ pushed' = Append(pushed, x)
    /\ last' = [NoCall EXCEPT !.op = "qpush", !.node = x, !.lenBefore = Cardinality(Unpopped)]
    /\ UNCHANGED <<stack, taken, outs, pqVars, searchVars>>

QPop ==
    LET r == QueuePop(queue)
    IN  /\ queue' = r.items
        /\ taken' = IF Unpopped = {} THEN taken ELSE taken \cup {Earliest}
        /\ outs' = IF r.err = "" THEN Append(outs, r.ret) ELSE outs
        /\ last' = [NoCall EXCEPT !.op = "qpop", !.ret = r.ret, !.err = r.err,
                                  !.expect = IF Unpopped = {} THEN NONE ELSE pushed[Earliest],
                                  !.lenBefore = Cardinality(Unpopped),
                                  !.wasLive = Unpopped # {}]
        /\ UNCHANGED <<stack, pushed, pqVars, searchVars>>

QPeek ==
    /\ last' = [NoCall EXCEPT !.op = "qpeek", !.ret = QueuePeek(queue),
                              !.expect = IF Unpopped = {} THEN NONE ELSE pushed[Earliest],
                              !.lenBefore = Cardinality(Unpopped),
                              !.wasLive = Unpopped # {}]
    /\ UNCHANGED <<fsVars, pqVars, searchVars>>

NextQueue ==
    \/ \E x \in Items : QPush(x)
    \/ QPop
    \/ QPeek

SpecQueue == InitQueue /\ [][NextQueue]_vars

(***************************************************************************)
(* The LIFO stack under any interleaving of push / pop / peek.             *)
(***************************************************************************)
InitStack == IdlePQ /\ IdleFS /\ IdleSearch /\ last = NoCall

SPush(x) ==
    /\ Len(pushed) < MaxPush
    /\ stack' = StackPush(stack, x)
    /\ pushed' = Append(pushed, x)
    /\ last' = [NoCall EXCEPT !.op = "spush", !.node = x, !.lenBefore = Cardinality(Unpopped)]
    /\ UNCHANGED <<queue, taken, outs, pqVars, searchVars>>

SPop ==
    LET r == StackPop(stack)
    IN  /\ stack' = r.items
        /\ taken' = IF Unpopped = {} THEN taken ELSE taken \cup {Latest}
        /\ outs' = IF r.err = "" THEN Append(outs, r.ret) ELSE outs
        /\ last' = [NoCall EXCEPT !.op = "spop", !.ret = r.ret, !.err = r.err,
                                  !.expect = IF Unpopped = {} THEN NONE ELSE pushed[Latest],
                                  !.count = IF Unpopped = {} THEN NONE ELSE Latest,
                                  !.lenBefore = Cardinality(Unpopped),
                                  !.wasLive = Unpopped # {}]
        /\ UNCHANGED <<queue, pushed, pqVars, searchVars>>

SPeek ==
    /\ last' = [NoCall EXCEPT !.op = "speek", !.ret = StackPeek(stack),
                              !.expect = IF Unpopped = {} THEN NONE ELSE pushed[Latest],
                              !.lenBefore = Cardinality(Unpopped),
                              !.wasLive = Unpopped # {}]
    /\ UNCHANGED <<fsVars, pqVars, searchVars>>

NextStack ==
    \/ \E x \in Items : SPush(x)
    \/ SPop
    \/ SPeek

SpecStack == InitStack /\ [][NextStack]_vars

(***************************************************************************)
(* The three structures in one run, one of them in use at a time: the      *)
(* priority queue while the lists have never been pushed to, the queue     *)
(* while the stack is empty and the stack while the queue is empty.        *)
(***************************************************************************)
InitStructures == IdlePQ /\ IdleFS /\ IdleSearch /\ last = NoCall

NextStructures ==
    \/ pushed = <<>> /\ NextPQ
    \/ pq = PQNew /\ stack = <<>> /\ NextQueue
    \/ pq = PQNew /\ queue = <<>> /\ NextStack

SpecStructures == InitStructures /\ [][NextStructures]_vars

(***************************************************************************)
(* The graph start_search hands to the search agent.  Vertices are the     *)
(* node names 0..NumV-1; the source is vertex 0 and the goal the last      *)
(* vertex, two different vertices.  An edge into the source or out of the  *)
(* goal is never followed by a forward search (the source is visited       *)
(* first, the goal is never expanded), so the graphs drawn have none.      *)
(* Neighbours are enumerated in insertion order: by ascending or by        *)
(* descending target.                                                      *)
(***************************************************************************)
NumV == 4          \* vertices of a graph
MaxW == 1          \* edge weights are 0..MaxW
MaxH == 1          \* heuristic values are 0..MaxH
MaxEdges == 3      \* edges of a weighted graph drawn for uniform-cost search;
                   \* the other strategies get graphs of up to NumV edges
MaxDepth == 3      \* the depth field of the form is 0..MaxDepth

SourceId == 0
Vertices == 0..(NumV - 1)
GoalId == NumV - 1
Pairs == {e \in Vertices \X Vertices : e[1] # e[2] /\ e[2] # SourceId /\ e[1] # GoalId}
\* self.nodes of the graph being searched, and a cost no path reaches
Nodes == DOMAIN graph
Infinity == Cardinality(Nodes) * (MaxW + 1)

Reverse(s) == [i \in 1..Len(s) |-> s[Len(s) + 1 - i]]

RECURSIVE NbrsFrom(_, _, _, _)
NbrsFrom(wt, u, v, n) ==
    IF v >= n THEN <<>>
    ELSE (IF <<u, v>> \in DOMAIN wt THEN <<[to |-> v, w |-> wt[<<u, v>>]]>> ELSE <<>>)
             \o NbrsFrom(wt, u, v + 1, n)

\* the adjacency lists of the vertices 0..n-1 after add_edge was called for
\* every edge of wt
AdjOf(n, wt, desc) ==
    [u \in 0..(n - 1) |->
        IF desc THEN Reverse(NbrsFrom(wt, u, 0, n)) ELSE NbrsFrom(wt, u, 0, n)]

HasEdge(u, v) == \E i \in DOMAIN graph[u] : graph[u][i].to = v
Weight(u, v) == graph[u][CHOOSE i \in DOMAIN graph[u] : graph[u][i].to = v].w

\* the graphs with at most k edges and weights in W
DrawGraph(W, k) ==
    \E es \in SUBSET Pairs :
        /\ Cardinality(es) <= k
        /\ \E wt \in [es -> W], desc \in BOOLEAN : graph = AdjOf(NumV, wt, desc)

(***************************************************************************)
(* Reference: least cost and least number of edges of a path, by           *)
(* Bellman-Ford over the graph.                                            *)
(***************************************************************************)
Min(S) == CHOOSE x \in S : \A y \in S : x <= y

\* one round of relaxation, for the vertices v..NumV-1; d[v] is the least cost
\* found so far of a path from the start to v (back: from v to the start)
RECURSIVE Round(_, _, _, _)
Round(d, unit, back, v) ==
    IF v \notin Nodes THEN <<>>
    ELSE (v :> Min({d[v]} \cup
                   {d[u] + (IF unit THEN 1 ELSE IF back THEN Weight(v, u) ELSE Weight(u, v)) :
                      u \in {x \in Nodes :
                                d[x] < Infinity /\ (IF back THEN HasEdge(v, x) ELSE HasEdge(x, v))}}))
            @@ Round(d, unit, back, v + 1)

RECURSIVE Relaxed(_, _, _, _)
Relaxed(k, d, unit, back) ==
    IF k = 0 THEN d
    ELSE CHOOSE r \in {Relaxed(k - 1, nd, unit, back) : nd \in {Round(d, unit, back, 0)}} : TRUE

RECURSIVE Start(_, _)
Start(u, v) == IF v \notin Nodes THEN <<>> ELSE (v :> IF v = u THEN 0 ELSE Infinity) @@ Start(u, v + 1)

\* least cost of a path from u to every vertex (Infinity: none)
CostFrom(u) == CHOOSE r \in {Relaxed(Cardinality(Nodes) - 1, d, FALSE, FALSE) : d \in {Start(u, 0)}} : TRUE
\* least cost of a path from every vertex to u (Infinity: none)
CostTo(u) == CHOOSE r \in {Relaxed(Cardinality(Nodes) - 1, d, FALSE, TRUE) : d \in {Start(u, 0)}} : TRUE
\* least number of edges of a path from u to every vertex (Infinity: none)
HopsFrom(u) == CHOOSE r \in {Relaxed(Cardinality(Nodes) - 1, d, TRUE, FALSE) : d \in {Start(u, 0)}} : TRUE

IsPath(path) ==
    /\ Len(path) >= 1
    /\ path[1] = run.source
    /\ path[Len(path)] = run.goal
    /\ \A i \in 1..(Len(path) - 1) : HasEdge(path[i], path[i + 1])

RECURSIVE CostOf(_)
CostOf(path) ==
    IF Len(path) <= 1 THEN 0
    ELSE Weight(path[1], path[2]) + CostOf(Tail(path))

\* h never overestimates the least cost to the goal
Admissible ==
    \E c \in {CostTo(run.goal)} : \A v \in Nodes : c[v] < Infinity => heur[v] <= c[v]

(***************************************************************************)
(* The search agent.  sa holds the fields the visualizer reads             *)
(* (visited_list, traversal_array, path_found, path_cost, success,         *)
(* nodes_explored) and what the running generator keeps between two        *)
(* yields (visited, parent, g, limit, pc, and for bidirectional search the  *)
(* backward side's frontier, visited set and parent map and the meeting    *)
(* vertex); the frontier is pq, queue or stack.  One action is one         *)
(* resumption of the generator: one pop (bidirectional: one per side).     *)
(***************************************************************************)
NewAgent ==
    [pc |-> "run", visited |-> {}, parent |-> <<>>, g |-> <<>>, limit |-> NONE,
     bqueue |-> <<>>, bvisited |-> {}, bparent |-> <<>>, meet |-> NONE,
     visited_list |-> <<>>, traversal_array |-> <<>>, path_found |-> <<>>,
     path_cost |-> 0, success |-> FALSE, nodes_explored |-> 0]

\* Path Reconstructor: follow the parent links from the goal, then reverse
RECURSIVE ChainTo(_, _, _)
ChainTo(parent, v, fuel) ==
    IF v = NONE \/ fuel = 0 THEN <<>>
    ELSE <<v>> \o ChainTo(parent, IF v \in DOMAIN parent THEN parent[v] ELSE NONE, fuel - 1)

\* a slip: the walk stops one link early and the source is left out
ReconstructPathNoSource(parent, goal) ==
    Tail(Reverse(ChainTo(parent, goal, Cardinality(DOMAIN parent) + 1)))

ReconstructPath(parent, goal) == Reverse(ChainTo(parent, goal, Cardinality(DOMAIN parent) + 1))

\* a slip: the edges are counted, their weights are not added
PathCostHops(path) == Len(path) - 1

\* path_cost: the sum of the edge weights along the path
PathCost(path) == CostOf(path)

Found(a, parent) ==
    [a EXCEPT !.pc = "done", !.success = TRUE, !.parent = parent,
              !.path_found = ReconstructPath(parent, run.goal),
              !.path_cost = PathCost(ReconstructPath(parent, run.goal))]

(***************************************************************************)
(* Uniform-cost, greedy best-first and A*: one priority queue, keyed by    *)
(* g, h or g + h.                                                          *)
(***************************************************************************)
Priority(algo, gval, h) ==
    CASE algo = "ucs" -> gval
      [] algo = "greedy" -> h
      [] OTHER -> gval + h

\* while the queue is not empty, pop until a vertex that is not finalized comes
\* out; err = "exhausted": the queue ran empty, the loop ends
RECURSIVE PopOpen(_, _)
PopOpen(q, closed) ==
    IF PQIsEmpty(q) THEN [pq |-> q, err |-> "exhausted", ret |-> NONE, count |-> NONE]
    ELSE LET r == PQPop(q)
         IN  IF r.err = "" /\ r.ret \in closed THEN PopOpen(r.pq, closed) ELSE r

\* relax the neighbours nb[i..] of cur: st = [pq, g, parent]
RECURSIVE Relax(_, _, _, _, _)
Relax(st, cur, nb, i, closed) ==
    IF i > Len(nb) THEN st
    ELSE LET n == nb[i].to
             new_g == st.g[cur] + nb[i].w
         IN  Relax(IF n \notin closed /\ (n \notin DOMAIN st.g \/ new_g < st.g[n])
                   THEN [pq |-> PQPush(st.pq, n, Priority(run.algo, new_g, heur[n])),
                         g |-> (n :> new_g) @@ st.g,
                         parent |-> (n :> cur) @@ st.parent]
                   ELSE st,
                   cur, nb, i + 1, closed)

\* start_search: the agent is created for the source and the first goal, and
\* the generator of the chosen algorithm runs up to its first pop
BeginRun(algo, goal, depth) ==
    [algo |-> algo, source |-> SourceId, goal |-> goal, depth |-> depth]

BeginAgent(algo, goal, depth) ==
    CASE algo \in {"ucs", "greedy", "astar"} ->
             [NewAgent EXCEPT !.g = (SourceId :> 0), !.parent = (SourceId :> NONE)]
      [] algo = "bfs" ->
             [NewAgent EXCEPT !.visited = {SourceId}, !.visited_list = <<SourceId>>,
                              !.parent = (SourceId :> NONE)]
      [] algo = "bidirectional" ->
             [NewAgent EXCEPT !.visited = {SourceId}, !.parent = (SourceId :> NONE),
                              !.bvisited = {goal}, !.bparent = (goal :> NONE),
                              !.bqueue = QueuePush(<<>>, goal),
                              !.visited_list = IF goal = SourceId THEN <<SourceId>>
                                               ELSE <<SourceId, goal>>]
      [] algo = "dfs" -> [NewAgent EXCEPT !.parent = (SourceId :> NONE)]
      [] algo = "dls" -> [NewAgent EXCEPT !.limit = depth, !.parent = (SourceId :> NONE)]
      [] OTHER -> [NewAgent EXCEPT !.limit = 0, !.parent = (SourceId :> NONE)]

BeginPQ(algo, h) ==
    IF algo \in {"ucs", "greedy", "astar"}
    THEN PQPush(PQNew, SourceId, Priority(algo, 0, h[SourceId]))
    ELSE PQNew

BeginQueue(algo) ==
    IF algo \in {"bfs", "bidirectional"} THEN QueuePush(<<>>, SourceId) ELSE <<>>

BeginStack(algo) ==
    CASE algo = "dfs" -> StackPush(<<>>, <<SourceId>>)
      [] algo \in {"dls", "ids"} -> StackPush(<<>>, <<SourceId, 0>>)
      [] OTHER -> <<>>

Begin(algo, goal, depth) ==
    /\ run = BeginRun(algo, goal, depth)
    /\ sa = BeginAgent(algo, goal, depth)
    /\ pq = BeginPQ(algo, heur)
    /\ queue = BeginQueue(algo)
    /\ stack = BeginStack(algo)
    /\ IdleRef
    /\ gv = <<>>

InitBestFirst(algo, W, H, k) ==
    /\ DrawGraph(W, k)
    /\ heur \in [Vertices -> H]
    /\ Begin(algo, GoalId, NONE)

BestFirstStep ==
    /\ run.algo \in {"ucs", "greedy", "astar"}
    /\ sa.pc = "run"
    /\ LET r == PopOpen(pq, sa.visited)
       IN  IF r.err # ""
           THEN /\ pq' = r.pq
                /\ sa' = [sa EXCEPT !.pc = IF r.err = "exhausted" THEN "done" ELSE "error"]
           ELSE LET cur == r.ret
                    a == [sa EXCEPT !.visited = @ \cup {cur},
                                    !.visited_list = Append(@, cur),
                                    !.traversal_array = Append(@, cur),
                                    !.nodes_explored = @ + 1]
                IN  IF cur = run.goal
                    THEN /\ pq' = r.pq
                         /\ sa' = Found(a, sa.parent)
                    ELSE LET st == Relax([pq |-> r.pq, g |-> sa.g, parent |-> sa.parent],
                                         cur, graph[cur], 1, a.visited)
                         IN  /\ pq' = st.pq
                             /\ sa' = [a EXCEPT !.g = st.g, !.parent = st.parent]
    /\ UNCHANGED <<queue, stack, live, tomb, npush, popped, pushed, taken, outs, last,
                   graph, heur, run, gv>>

InitUCS == InitBestFirst("ucs", 0..MaxW, {0}, MaxEdges)
SpecUCS == InitUCS /\ [][BestFirstStep]_vars

InitAStar == InitBestFirst("astar", 0..MaxW, 0..MaxH, NumV) /\ Admissible
SpecAStar == InitAStar /\ [][BestFirstStep]_vars

(***************************************************************************)
(* Breadth-first search: FIFO queue, a vertex is marked visited when it is *)
(* pushed, and the run stops the instant the goal is generated.            *)
(***************************************************************************)
\* generate the neighbours nb[i..] of cur: st = [queue, visited, visited_list, parent, hit]
RECURSIVE Generate(_, _, _, _)
Generate(st, cur, nb, i) ==
    IF i > Len(nb) \/ st.hit THEN st
    ELSE LET n == nb[i].to
         IN  Generate(IF n \in st.visited THEN st
                      ELSE [queue |-> IF n = run.goal THEN st.queue ELSE QueuePush(st.queue, n),
                            visited |-> st.visited \cup {n},
                            visited_list |-> Append(st.visited_list, n),
                            parent |-> (n :> cur) @@ st.parent,
                            hit |-> n = run.goal],
                      cur, nb, i + 1)

InitBFS ==
    /\ DrawGraph({1}, NumV)
    /\ heur = [v \in Vertices |-> 0]
    /\ Begin("bfs", GoalId, NONE)

BFSStep ==
    /\ run.algo = "bfs"
    /\ sa.pc = "run"
    /\ LET r == QueuePop(queue)
       IN  IF QueueIsEmpty(queue) \/ r.err # ""
           THEN /\ queue' = queue
                /\ sa' = [sa EXCEPT !.pc = IF QueueIsEmpty(queue) THEN "done" ELSE "error"]
           ELSE LET cur == r.ret
                    st == Generate([queue |-> r.items, visited |-> sa.visited,
                                    visited_list |-> sa.visited_list, parent |-> sa.parent,
                                    hit |-> FALSE],
                                   cur, graph[cur], 1)
                    a == [sa EXCEPT !.traversal_array = Append(@, cur),
                                    !.nodes_explored = @ + 1,
                                    !.visited = st.visited,
                                    !.visited_list = st.visited_list,
                                    !.parent = st.parent]
                IN  IF cur = run.goal
                    THEN /\ queue' = r.items
                         /\ sa' = Found([sa EXCEPT !.traversal_array = Append(@, cur),
                                                   !.nodes_explored = @ + 1], sa.parent)
                    ELSE /\ queue' = st.queue
                         /\ sa' = IF st.hit THEN Found(a, st.parent) ELSE a
    /\ UNCHANGED <<pq, stack, live, tomb, npush, popped, pushed, taken, outs, last,
                   graph, heur, run, gv>>

SpecBFS == InitBFS /\ [][BFSStep]_vars

(***************************************************************************)
(* Iterative deepening: depth-limited search (LIFO stack of <<vertex,      *)
(* depth>>, a vertex is marked visited when it is popped, visited          *)
(* neighbours are skipped) with the limits 0, 1, ..., max_depth; visited   *)
(* and traversal are reset at the start of each iteration.                 *)
(***************************************************************************)
\* while the stack is not empty, pop until an entry of a vertex not yet visited
\* comes out; err = "exhausted": the stack ran empty, the loop ends
RECURSIVE PopUnvisited(_, _)
PopUnvisited(items, visited) ==
    IF StackIsEmpty(items) THEN [items |-> items, err |-> "exhausted", ret |-> NONE]
    ELSE LET r == StackPop(items)
         IN  IF r.err = "" /\ r.ret[1] \in visited THEN PopUnvisited(r.items, visited) ELSE r

\* push the unvisited neighbours nb[i..] of cur at depth d: st = [stack, parent]
RECURSIVE PushNeighbours(_, _, _, _, _, _)
PushNeighbours(st, cur, d, nb, i, visited) ==
    IF i > Len(nb) THEN st
    ELSE LET n == nb[i].to
         IN  PushNeighbours(IF n \in visited THEN st
                            ELSE [stack |-> StackPush(st.stack, <<n, d>>),
                                  parent |-> (n :> cur) @@ st.parent],
                            cur, d, nb, i + 1, visited)

InitIDS ==
    /\ DrawGraph({1}, NumV)
    /\ heur = [v \in Vertices |-> 0]
    /\ \E md \in 0..MaxDepth : Begin("ids", GoalId, md)

\* a slip the depth test could make: a vertex popped at the limit is expanded
DLSStepExpandsAtLimit ==
    /\ run.algo \in {"dls", "ids"}
    /\ sa.pc = "run"
    /\ ~StackIsEmpty(stack)
    /\ LET r == PopUnvisited(stack, sa.visited)
       IN  IF r.err # ""
           THEN /\ stack' = r.items
                /\ sa' = IF r.err = "exhausted" THEN sa ELSE [sa EXCEPT !.pc = "error"]
           ELSE LET cur == r.ret[1]
                    depth == r.ret[2]
                    a == [sa EXCEPT !.visited = @ \cup {cur},
                                    !.visited_list = Append(@, cur),
                                    !.traversal_array = Append(@, cur),
                                    !.nodes_explored = @ + 1]
                IN  IF cur = run.goal
                    THEN /\ stack' = r.items
                         /\ sa' = Found(a, sa.parent)
                    ELSE IF depth <= sa.limit
                    THEN LET st == PushNeighbours([stack |-> r.items, parent |-> sa.parent],
                                                  cur, depth + 1, graph[cur], 1, a.visited)
                         IN  /\ stack' = st.stack
                             /\ sa' = [a EXCEPT !.parent = st.parent]
                    ELSE /\ stack' = r.items
                         /\ sa' = a
    /\ UNCHANGED <<pq, queue, live, tomb, npush, popped, pushed, taken, outs, last,
                   graph, heur, run, gv>>

\* one pop of the depth-limited search (for IDS: of the current iteration)
DLSStep ==
    /\ run.algo \in {"dls", "ids"}
    /\ sa.pc = "run"
    /\ ~StackIsEmpty(stack)
    /\ LET r == PopUnvisited(stack, sa.visited)
       IN  IF r.err # ""
           THEN /\ stack' = r.items
                /\ sa' = IF r.err = "exhausted" THEN sa ELSE [sa EXCEPT !.pc = "error"]
           ELSE LET cur == r.ret[1]
                    depth == r.ret[2]
                    a == [sa EXCEPT !.visited = @ \cup {cur},
                                    !.visited_list = Append(@, cur),
                                    !.traversal_array = Append(@, cur),
                                    !.nodes_explored = @ + 1]
                IN  IF cur = run.goal
                    THEN /\ stack' = r.items
                         /\ sa' = Found(a, sa.parent)
                    ELSE IF depth < sa.limit
                    THEN LET st == PushNeighbours([stack |-> r.items, parent |-> sa.parent],
                                                  cur, depth + 1, graph[cur], 1, a.visited)
                         IN  /\ stack' = st.stack
                             /\ sa' = [a EXCEPT !.parent = st.parent]
                    ELSE /\ stack' = r.items
                         /\ sa' = a
    /\ UNCHANGED <<pq, queue, live, tomb, npush, popped, pushed, taken, outs, last,
                   graph, heur, run, gv>>

\* the iteration's stack is empty: start the next limit, or give up after max_depth
IDSNextDepth ==
    /\ run.algo = "ids"
    /\ sa.pc = "run"
    /\ StackIsEmpty(stack)
    /\ IF sa.limit < run.depth
       THEN /\ sa' = [sa EXCEPT !.limit = @ + 1, !.visited = {}, !.visited_list = <<>>,
                                !.traversal_array = <<>>, !.parent = (run.source :> NONE)]
            /\ stack' = StackPush(<<>>, <<run.source, 0>>)
       ELSE /\ sa' = [sa EXCEPT !.pc = "done"]
            /\ stack' = stack
    /\ UNCHANGED <<pq, queue, live, tomb, npush, popped, pushed, taken, outs, last,
                   graph, heur, run, gv>>

NextIDS == DLSStep \/ IDSNextDepth

SpecIDS == InitIDS /\ [][NextIDS]_vars

\* depth-limited search on its own: the stack is empty, the step sequence ends
DLSExhausted ==
    /\ run.algo = "dls"
    /\ sa.pc = "run"
    /\ StackIsEmpty(stack)
    /\ sa' = [sa EXCEPT !.pc = "done"]
    /\ UNCHANGED <<pq, queue, stack, live, tomb, npush, popped, pushed, taken, outs, last,
                   graph, heur, run, gv>>

(***************************************************************************)
(* Depth-first search: LIFO stack of vertices (entries <<vertex>>, as the   *)
(* depth-limited search has <<vertex, depth>>), a vertex is marked visited *)
(* when it is popped, and neighbours already visited are not pushed.       *)
(***************************************************************************)
\* a slip: what is popped is taken as it comes, visited or not
PopFreshNoSkip(items, visited) ==
    IF StackIsEmpty(items) THEN [items |-> items, err |-> "exhausted", ret |-> NONE]
    ELSE StackPop(items)

\* while the stack is not empty, pop until a vertex not yet visited comes out;
\* err = "exhausted": the stack ran empty, the loop ends
RECURSIVE PopFresh(_, _)
PopFresh(items, visited) ==
    IF StackIsEmpty(items) THEN [items |-> items, err |-> "exhausted", ret |-> NONE]
    ELSE LET r == StackPop(items)
         IN  IF r.err = "" /\ r.ret[1] \in visited THEN PopFresh(r.items, visited) ELSE r

\* push the unvisited neighbours nb[i..] of cur: st = [stack, parent]
RECURSIVE PushFresh(_, _, _, _, _)
PushFresh(st, cur, nb, i, visited) ==
    IF i > Len(nb) THEN st
    ELSE LET n == nb[i].to
         IN  PushFresh(IF n \in visited THEN st
                       ELSE [stack |-> StackPush(st.stack, <<n>>),
                             parent |-> (n :> cur) @@ st.parent],
                       cur, nb, i + 1, visited)

DFSStep ==
    /\ run.algo = "dfs"
    /\ sa.pc = "run"
    /\ LET r == PopFresh(stack, sa.visited)
       IN  IF r.err # ""
           THEN /\ stack' = r.items
                /\ sa' = [sa EXCEPT !.pc = IF r.err = "exhausted" THEN "done" ELSE "error"]
           ELSE LET cur == r.ret[1]
                    a == [sa EXCEPT !.visited = @ \cup {cur},
                                    !.visited_list = Append(@, cur),
                                    !.traversal_array = Append(@, cur),
                                    !.nodes_explored = @ + 1]
                IN  IF cur = run.goal
                    THEN /\ stack' = r.items
                         /\ sa' = Found(a, sa.parent)
                    ELSE LET st == PushFresh([stack |-> r.items, parent |-> sa.parent],
                                             cur, graph[cur], 1, a.visited)
                         IN  /\ stack' = st.stack
                             /\ sa' = [a EXCEPT !.parent = st.parent]
    /\ UNCHANGED <<pq, queue, live, tomb, npush, popped, pushed, taken, outs, last,
                   graph, heur, run, gv>>

(***************************************************************************)
(* Bidirectional search: two FIFO frontiers, forward from the source       *)
(* (queue) and backward from the goal over reversed edges (sa.bqueue).     *)
(* One step is one forward expansion followed by one backward expansion;   *)
(* vertices are marked visited when pushed, and the run ends the instant   *)
(* a vertex is visited by both sides.                                      *)
(***************************************************************************)
\* the vertices with an edge to v, in the order of self.nodes
RECURSIVE InNbrs(_, _)
InNbrs(v, u) ==
    IF u \notin Nodes THEN <<>>
    ELSE (IF HasEdge(u, v) THEN <<u>> ELSE <<>>) \o InNbrs(v, u + 1)

\* one side generates the vertices ns[i..] from cur:
\* st = [items, visited, parent, visited_list, meet]; other: the other side's visited set
RECURSIVE Meet(_, _, _, _, _)
Meet(st, cur, ns, i, other) ==
    IF i > Len(ns) \/ st.meet # NONE THEN st
    ELSE LET n == ns[i]
         IN  Meet(IF n \in st.visited THEN st
                  ELSE [items |-> IF n \in other THEN st.items ELSE QueuePush(st.items, n),
                        visited |-> st.visited \cup {n},
                        parent |-> (n :> cur) @@ st.parent,
                        visited_list |-> IF n \in other THEN st.visited_list
                                         ELSE Append(st.visited_list, n),
                        meet |-> IF n \in other THEN n ELSE NONE],
                  cur, ns, i + 1, other)

\* the forward parent chain source..m joined with the backward chain m..goal
JoinAt(parent, bparent, m) ==
    ReconstructPath(parent, m) \o Tail(ChainTo(bparent, m, Cardinality(DOMAIN bparent) + 1))

FoundAt(a, m) ==
    [a EXCEPT !.pc = "done", !.success = TRUE, !.meet = m,
              !.path_found = JoinAt(a.parent, a.bparent, m),
              !.path_cost = PathCost(JoinAt(a.parent, a.bparent, m))]

Targets(nb) == [i \in 1..Len(nb) |-> nb[i].to]

BidirectionalStep ==
    /\ run.algo = "bidirectional"
    /\ sa.pc = "run"
    /\ IF sa.visited \cap sa.bvisited # {}
       THEN /\ sa' = FoundAt(sa, CHOOSE m \in sa.visited \cap sa.bvisited : TRUE)
            /\ queue' = queue
       ELSE IF QueueIsEmpty(queue) \/ QueueIsEmpty(sa.bqueue)
       THEN /\ sa' = [sa EXCEPT !.pc = "done"]
            /\ queue' = queue
       ELSE LET rf == QueuePop(queue)
                f == Meet([items |-> rf.items, visited |-> sa.visited, parent |-> sa.parent,
                           visited_list |-> sa.visited_list, meet |-> NONE],
                          rf.ret, Targets(graph[rf.ret]), 1, sa.bvisited)
                af == [sa EXCEPT !.visited = f.visited, !.parent = f.parent,
                                 !.visited_list = f.visited_list,
                                 !.traversal_array = Append(@, rf.ret),
                                 !.nodes_explored = @ + 1]
            IN  IF f.meet # NONE
                THEN /\ sa' = FoundAt(af, f.meet)
                     /\ queue' = f.items
                ELSE LET rb == QueuePop(sa.bqueue)
                         b == Meet([items |-> rb.items, visited |-> sa.bvisited,
                                    parent |-> sa.bparent, visited_list |-> f.visited_list,
                                    meet |-> NONE],
                                   rb.ret, InNbrs(rb.ret, 0), 1, f.visited)
                         ab == [af EXCEPT !.bqueue = b.items, !.bvisited = b.visited,
                                          !.bparent = b.parent,
                                          !.visited_list = b.visited_list,
                                          !.traversal_array = Append(@, rb.ret),
                                          !.nodes_explored = @ + 1]
                     IN  /\ sa' = IF b.meet # NONE THEN FoundAt(ab, b.meet) ELSE ab
                         /\ queue' = f.items
    /\ UNCHANGED <<pq, stack, live, tomb, npush, popped, pushed, taken, outs, last,
                   graph, heur, run, gv>>

(***************************************************************************)
(* Any of the eight strategies, as start_search selects it, on a graph of  *)
(* NumV vertices with at most MaxEdges edges.  The edge weights are all 1, *)
(* or the square of the distance between the two ids (a long edge costs    *)
(* more than the short ones it spans); the heuristic of an informed        *)
(* search is 0 everywhere or, as in the example graphs, the distance of    *)
(* the id to the goal's.  The goal is the last vertex or, set_source       *)
(* having been applied to a goal node, the source itself.                  *)
(***************************************************************************)
Algorithms == {"bfs", "dfs", "dls", "ids", "ucs", "bidirectional", "greedy", "astar"}

Dist(a, b) == IF a < b THEN b - a ELSE a - b

Weightings(es) == {[e \in es |-> 1], [e \in es |-> Dist(e[1], e[2]) * Dist(e[1], e[2])]}

Heuristics(algo, goal) ==
    {[v \in Vertices |-> 0]} \cup
    (IF algo \in {"greedy", "astar"} THEN {[v \in Vertices |-> Dist(goal, v)]} ELSE {})

Depths(algo) == IF algo \in {"dls", "ids"} THEN 0..MaxDepth ELSE {NONE}

Graphs ==
    UNION {{AdjOf(NumV, wt, desc) : wt \in Weightings(es), desc \in BOOLEAN} :
              es \in {x \in SUBSET Pairs : Cardinality(x) <= MaxEdges}}

InitSearch ==
    /\ graph \in Graphs
    /\ \E algo \in Algorithms, goal \in {SourceId, GoalId} :
           /\ heur \in Heuristics(algo, goal)
           /\ \E depth \in Depths(algo) : Begin(algo, goal, depth)

NextSearch ==
    \/ BFSStep
    \/ DFSStep
    \/ DLSStep
    \/ DLSExhausted
    \/ IDSNextDepth
    \/ BestFirstStep
    \/ BidirectionalStep

SpecSearch == InitSearch /\ [][NextSearch]_vars

(***************************************************************************)
(* The example graphs of the editor (load_example): the path of 5 nodes,   *)
(* the binary tree of 7, the 3 x 3 grid and the weighted graph of 6, each  *)
(* with node 0 as the source, its last node as the goal and the heuristic  *)
(* values the loader gives; any strategy is then started on it.            *)
(***************************************************************************)
SimpleExampleBackEdges ==
    [n |-> 5,
     wt |-> [e \in {<<i + 1, i>> : i \in 0..3} |-> 1],
     h |-> [i \in 0..4 |-> 4 - i]]

SimpleExample ==
    [n |-> 5,
     wt |-> [e \in {<<i, i + 1>> : i \in 0..3} |-> 1],
     h |-> [i \in 0..4 |-> 4 - i]]

TreeExample ==
    [n |-> 7,
     wt |-> [e \in {<<0, 1>>, <<0, 2>>, <<1, 3>>, <<1, 4>>, <<2, 5>>, <<2, 6>>} |-> 1],
     h |-> [i \in 0..6 |-> Dist(6, i)]]

GridExample ==
    [n |-> 9,
     wt |-> [e \in {<<3 * r + c, 3 * r + c + 1>> : r \in 0..2, c \in 0..1}
                    \cup {<<3 * r + c, 3 * r + c + 3>> : r \in 0..1, c \in 0..2} |-> 1],
     h |-> [i \in 0..8 |-> Dist(2, i \div 3) + Dist(2, i % 3)]]

WeightedExample ==
    [n |-> 6,
     wt |-> (<<0, 1>> :> 2) @@ (<<0, 3>> :> 5) @@ (<<1, 2>> :> 3) @@ (<<1, 3>> :> 2) @@
            (<<2, 4>> :> 1) @@ (<<2, 5>> :> 7) @@ (<<3, 4>> :> 1) @@ (<<4, 5>> :> 2),
     h |-> [i \in 0..5 |-> Dist(5, i)]]

Examples == {SimpleExample, TreeExample, GridExample, WeightedExample}

InitExample ==
    \E ex \in Examples, algo \in Algorithms :
        /\ graph = AdjOf(ex.n, ex.wt, FALSE)
        /\ heur = ex.h
        /\ \E depth \in Depths(algo) : Begin(algo, ex.n - 1, depth)

SpecExample == InitExample /\ [][NextSearch]_vars

(***************************************************************************)
(* Bidirectional search alone, on the graphs above and on route graphs:    *)
(* up to MaxN nodes added in id order, node 0 the source, the last node    *)
(* the goal, and the edges of two routes from the source to the goal, each *)
(* visiting some of the other nodes in id order (all weights 1).           *)
(***************************************************************************)
MaxN == 7

RouteEdges(T) == {e \in T \X T : e[1] < e[2] /\ \A c \in T : ~(e[1] < c /\ c < e[2])}

Routes(n) == {RouteEdges({0, n - 1} \cup S) : S \in SUBSET (1..(n - 2))}

RouteGraphs ==
    UNION {{AdjOf(n, [e \in A \cup B |-> 1], desc) : A \in Routes(n), B \in Routes(n), desc \in BOOLEAN} :
              n \in 2..MaxN}

InitBidirectional ==
    /\ graph \in Graphs \cup RouteGraphs \cup {AdjOf(ex.n, ex.wt, FALSE) : ex \in Examples}
    /\ heur = [v \in Nodes |-> 0]
    /\ \E goal \in {SourceId, Cardinality(Nodes) - 1} : Begin("bidirectional", goal, NONE)

SpecBidirectional == InitBidirectional /\ [][BidirectionalStep]_vars

(***************************************************************************)
(* The graph editor of GraphVisualizer.  self.nodes is a function from     *)
(* node name to the Node, a Node the record [heuristic, state, neighbors]  *)
(* with neighbors the [to, w] pairs of its dict in insertion order (the    *)
(* canvas position x, y is carried by no operation modelled here and is    *)
(* left out); source_node and goal_nodes hold node names for the Node      *)
(* objects.  A saved state is the JSON text of the graph: json.dumps       *)
(* writes the int keys of a dict as strings, so the keys of 'nodes' and    *)
(* of every 'neighbors' are strings in a saved state and restore_state     *)
(* converts them back with int().  gv.edits counts the editing operations  *)
(* called so far; it is no field of the program and only bounds the run.   *)
(***************************************************************************)
MaxNodes == 2      \* add_node is called while node_counter < MaxNodes
MaxEdits == 4      \* editing operations called in one run
MaxRedo == 4       \* undo is called while fewer than MaxRedo states can be redone
UndoLimit == 50    \* save_state: if len(self.undo_stack) > 50

HeurValues == 1..MaxH
EditWeights == 2..(MaxW + 1)

engineVars == <<pq, queue, stack, live, tomb, npush, popped, pushed, taken, outs, last,
                graph, heur, run, sa>>

\* str(n) as json.dumps writes a dict key, and int(s), IntOf, as restore_state reads it
Str(n) == <<"str", n>>
IntOf(s) == s[2]

NewNode(h) == [heuristic |-> h, state |-> "empty", neighbors |-> <<>>]

HasNeighbor(nb, to) == \E i \in DOMAIN nb : nb[i].to = to

\* self.neighbors[node] = weight: a new key goes last, an old key keeps its place
AddNeighbor(nb, to, w) ==
    IF HasNeighbor(nb, to)
    THEN [i \in DOMAIN nb |-> IF nb[i].to = to THEN [to |-> to, w |-> w] ELSE nb[i]]
    ELSE Append(nb, [to |-> to, w |-> w])

RemoveNeighbor(nb, to) == LET Keep(e) == e.to # to IN SelectSeq(nb, Keep)

\* list.remove(x): the first occurrence of x goes
RECURSIVE ListRemove(_, _)
ListRemove(l, x) ==
    IF l = <<>> THEN l
    ELSE IF Head(l) = x THEN Tail(l) ELSE <<Head(l)>> \o ListRemove(Tail(l), x)

InList(l, x) == \E i \in DOMAIN l : l[i] = x

ToDict(g, n) ==
    [name |-> n, heuristic |-> g.nodes[n].heuristic, state |-> g.nodes[n].state,
     neighbors |-> g.nodes[n].neighbors]

\* the dict save_state, undo and redo build of the current graph
CurrentState(g) ==
    [nodes |-> [n \in DOMAIN g.nodes |-> ToDict(g, n)],
     node_counter |-> g.node_counter,
     source |-> g.source_node,
     goals |-> g.goal_nodes]

\* json.loads(json.dumps(state)): dict keys come back as strings
JsonRoundTrip(state) ==
    [state EXCEPT !.nodes =
        [s \in {Str(n) : n \in DOMAIN state.nodes} |->
            [state.nodes[IntOf(s)] EXCEPT !.neighbors =
                [i \in DOMAIN @ |-> [to |-> Str(@[i].to), w |-> @[i].w]]]]]

RestoreStateKeepsGoals(g, state) ==
    [g EXCEPT
        !.nodes = [n \in {IntOf(s) : s \in DOMAIN state.nodes} |->
                      [heuristic |-> state.nodes[Str(n)].heuristic,
                       state |-> state.nodes[Str(n)].state,
                       neighbors |-> [i \in DOMAIN state.nodes[Str(n)].neighbors |->
                                         [to |-> IntOf(state.nodes[Str(n)].neighbors[i].to),
                                          w |-> state.nodes[Str(n)].neighbors[i].w]]]],
        !.node_counter = state.node_counter,
        !.source_node = state.source]

RestoreState(g, state) ==
    [g EXCEPT
        !.nodes = [n \in {IntOf(s) : s \in DOMAIN state.nodes} |->
                      [heuristic |-> state.nodes[Str(n)].heuristic,
                       state |-> state.nodes[Str(n)].state,
                       neighbors |-> [i \in DOMAIN state.nodes[Str(n)].neighbors |->
                                         [to |-> IntOf(state.nodes[Str(n)].neighbors[i].to),
                                          w |-> state.nodes[Str(n)].neighbors[i].w]]]],
        !.node_counter = state.node_counter,
        !.source_node = state.source,
        !.goal_nodes = state.goals]

SaveStateNoLimit(g) ==
    [g EXCEPT !.undo_stack = Append(@, JsonRoundTrip(CurrentState(g))),
              !.redo_stack = <<>>,
              !.edits = @ + 1]

SaveStateKeepsRedo(g) ==
    LET u == Append(g.undo_stack, JsonRoundTrip(CurrentState(g)))
    IN  [g EXCEPT !.undo_stack = IF Len(u) > UndoLimit THEN Tail(u) ELSE u,
                  !.edits = @ + 1]

SaveState(g) ==
    LET u == Append(g.undo_stack, JsonRoundTrip(CurrentState(g)))
    IN  [g EXCEPT !.undo_stack = IF Len(u) > UndoLimit THEN Tail(u) ELSE u,
                  !.redo_stack = <<>>,
                  !.edits = @ + 1]

\* search_agent: <<>> is None, <<a>> the agent a; timers: the set_timeout
\* callbacks the browser still holds; alert: the last
\* dialog shown, <<message, number of the start_search call that showed it>>;
\* starts counts the replays started, by start_search or export_gif, and, like
\* edits, only bounds the run
\* what clear_path writes to the data panel: empty lists, g(0) + h(0) = 0
NoDisplay ==
    [fringe |-> <<>>, visited |-> <<>>, traversal |-> <<>>, path |-> <<>>,
     current_info |-> [g |-> 0, h |-> 0, f |-> 0]]

\* gif_frames is the length of the list of that name.  display is what the
\* data panel shows.  tick records the calls of animate_next_step since the
\* replay was last started (n), what the latest did and who made it; it is
\* not a field of the program.
NewGV ==
    [nodes |-> <<>>, node_counter |-> 0, source_node |-> NONE, goal_nodes |-> <<>>,
     undo_stack |-> <<>>, redo_stack |-> <<>>, edits |-> 0,
     search_agent |-> <<>>, animation_states |-> <<>>, current_state_index |-> -1,
     is_animating |-> FALSE, is_paused |-> FALSE, animation_timer |-> NONE,
     timers |-> {}, alert |-> <<"", 0>>, starts |-> 0, loads |-> 0,
     recording_gif |-> FALSE, gif_frames |-> 0, display |-> NoDisplay,
     tick |-> [n |-> 0, did |-> "", by |-> ""]]

InitEditor ==
    /\ gv = NewGV
    /\ IdlePQ /\ IdleFS /\ last = NoCall
    /\ graph = <<>> /\ heur = <<>> /\ run = <<>> /\ sa = <<>>

AddNodeCall(g) ==
    LET id == g.node_counter
        first == DOMAIN g.nodes = {}
        node == [NewNode(0) EXCEPT !.state = IF first THEN "source" ELSE @]
    IN  SaveState([g EXCEPT !.nodes = (id :> node) @@ @,
                            !.node_counter = @ + 1,
                            !.source_node = IF first THEN id ELSE @])

AddNode ==
    /\ gv.edits < MaxEdits
    /\ gv.node_counter < MaxNodes
    /\ gv' = AddNodeCall(gv)
    /\ UNCHANGED engineVars

\* a slip delete_node could make: the edges into the node stay
DeleteNodeKeepsEdges(n) ==
    /\ gv.edits < MaxEdits
    /\ n \in DOMAIN gv.nodes
    /\ gv' = SaveState([gv EXCEPT
                 !.nodes = [m \in DOMAIN gv.nodes \ {n} |-> gv.nodes[m]],
                 !.source_node = IF @ = n THEN NONE ELSE @,
                 !.goal_nodes = ListRemove(@, n)])
    /\ UNCHANGED engineVars

DeleteNode(n) ==
    /\ gv.edits < MaxEdits
    /\ n \in DOMAIN gv.nodes
    /\ gv' = SaveState([gv EXCEPT
                 !.nodes = [m \in DOMAIN gv.nodes \ {n} |->
                               [gv.nodes[m] EXCEPT !.neighbors = RemoveNeighbor(@, n)]],
                 !.source_node = IF @ = n THEN NONE ELSE @,
                 !.goal_nodes = ListRemove(@, n)])
    /\ UNCHANGED engineVars

AddEdge(a, b) ==
    /\ gv.edits < MaxEdits
    /\ a \in DOMAIN gv.nodes /\ b \in DOMAIN gv.nodes /\ a # b
    /\ gv' = SaveState([gv EXCEPT !.nodes[a].neighbors = AddNeighbor(@, b, 1)])
    /\ UNCHANGED engineVars

DeleteEdge(a, b) ==
    /\ gv.edits < MaxEdits
    /\ a \in DOMAIN gv.nodes /\ HasNeighbor(gv.nodes[a].neighbors, b)
    /\ gv' = SaveState([gv EXCEPT !.nodes[a].neighbors = RemoveNeighbor(@, b)])
    /\ UNCHANGED engineVars

SetSource(n) ==
    /\ gv.edits < MaxEdits
    /\ n \in DOMAIN gv.nodes
    /\ LET g1 == IF gv.source_node # NONE
                 THEN [gv EXCEPT !.nodes[gv.source_node].state = "empty"]
                 ELSE gv
       IN  gv' = SaveState([g1 EXCEPT !.nodes[n].state = "source", !.source_node = n])
    /\ UNCHANGED engineVars

ToggleGoalCall(g, n) ==
    IF g.nodes[n].state = "goal"
    THEN SaveState([g EXCEPT !.nodes[n].state = "empty",
                             !.goal_nodes = ListRemove(@, n)])
    ELSE IF g.nodes[n].state = "source"
    THEN g
    ELSE SaveState([g EXCEPT !.nodes[n].state = "goal",
                             !.goal_nodes = Append(@, n)])

ToggleGoal(n) ==
    /\ gv.edits < MaxEdits
    /\ n \in DOMAIN gv.nodes
    /\ gv' = ToggleGoalCall(gv, n)
    /\ UNCHANGED engineVars

SetHeuristicCall(g, n, value) == SaveState([g EXCEPT !.nodes[n].heuristic = value])

SetHeuristic(n, value) ==
    /\ gv.edits < MaxEdits
    /\ n \in DOMAIN gv.nodes
    /\ gv' = SetHeuristicCall(gv, n, value)
    /\ UNCHANGED engineVars

SetEdgeWeight(a, b, weight) ==
    /\ gv.edits < MaxEdits
    /\ a \in DOMAIN gv.nodes /\ HasNeighbor(gv.nodes[a].neighbors, b)
    /\ gv' = SaveState([gv EXCEPT !.nodes[a].neighbors = AddNeighbor(@, b, weight)])
    /\ UNCHANGED engineVars

UndoCall(g) ==
    IF Len(g.undo_stack) > 0
    THEN LET g1 == [g EXCEPT !.redo_stack = Append(@, JsonRoundTrip(CurrentState(g))),
                             !.undo_stack = SubSeq(@, 1, Len(@) - 1)]
         IN  RestoreState(g1, g.undo_stack[Len(g.undo_stack)])
    ELSE g

RedoCall(g) ==
    IF Len(g.redo_stack) > 0
    THEN LET g1 == [g EXCEPT !.undo_stack = Append(@, JsonRoundTrip(CurrentState(g))),
                             !.redo_stack = SubSeq(@, 1, Len(@) - 1)]
         IN  RestoreState(g1, g.redo_stack[Len(g.redo_stack)])
    ELSE g

Undo ==
    /\ Len(gv.redo_stack) < MaxRedo
    /\ gv' = UndoCall(gv)
    /\ UNCHANGED engineVars

Redo == gv' = RedoCall(gv) /\ UNCHANGED engineVars

NextEditor ==
    \/ AddNode
    \/ \E n \in DOMAIN gv.nodes : DeleteNode(n)
    \/ \E a, b \in DOMAIN gv.nodes : AddEdge(a, b)
    \/ \E a, b \in DOMAIN gv.nodes : DeleteEdge(a, b)
    \/ \E n \in DOMAIN gv.nodes : SetSource(n)
    \/ \E n \in DOMAIN gv.nodes : ToggleGoal(n)
    \/ \E n \in DOMAIN gv.nodes, value \in HeurValues : SetHeuristic(n, value)
    \/ \E a, b \in DOMAIN gv.nodes, weight \in EditWeights : SetEdgeWeight(a, b, weight)
    \/ Undo
    \/ Redo

SpecEditor == InitEditor /\ [][NextEditor]_vars

\* The editor after a long session: one add_node and then k calls of
\* set_heuristic on that node, so that the undo stack is at or next to its limit.
NearLimit == 2

\* set_heuristic called on node 0 for the edits number lo to hi of a session,
\* with the values 2, 1, 2, 1, ... by the number of the edit; the first half
\* is worked out before the second is begun
RECURSIVE HeuristicEdits(_, _, _)
HeuristicEdits(g, lo, hi) ==
    IF lo > hi THEN g
    ELSE IF lo = hi THEN SetHeuristicCall(g, 0, 1 + (lo % 2))
    ELSE LET mid == (lo + hi) \div 2
             half == HeuristicEdits(g, lo, mid)
         IN  IF half.edits >= 0 THEN HeuristicEdits(half, mid + 1, hi) ELSE g

LongSession(k) == HeuristicEdits(AddNodeCall(NewGV), 1, k)

InitUndo ==
    /\ \E k \in (UndoLimit - 1 - NearLimit)..(UndoLimit + 1) :
          gv = [LongSession(k) EXCEPT !.edits = 0]
    /\ IdlePQ /\ IdleFS /\ last = NoCall
    /\ graph = <<>> /\ heur = <<>> /\ run = <<>> /\ sa = <<>>

\* Every editing operation acts on the two stacks through save_state alone;
\* add_node, delete_node and toggle_goal stand for them here.
NextUndo ==
    \/ AddNode
    \/ \E n \in DOMAIN gv.nodes : DeleteNode(n)
    \/ \E n \in DOMAIN gv.nodes : ToggleGoal(n)
    \/ Undo
    \/ Redo

SpecUndo == InitUndo /\ [][NextUndo]_vars

(***************************************************************************)
(* start_search and the replay of its snapshots.  The agent is not part of *)
(* the sources: its run is taken to pop the source first and then any      *)
(* other nodes, each once (order), tagging each order node "visited";    *)
(* whether it retags the source and the goal (ends) and, when the goal is  *)
(* the last node order, which of the order nodes it tags "path" (onpath) *)
(* is left open.  One snapshot is captured per pop.                        *)
(***************************************************************************)
MaxStarts == 2     \* calls of start_search in one run

\* a slip the scheduling could make: the callback is never queued
SetTimeoutLost(g) ==
    LET h == CHOOSE i \in 1..(Cardinality(g.timers) + 2) :
                 /\ i \notin g.timers \cup {g.animation_timer}
                 /\ \A j \in 1..(i - 1) : j \in g.timers \cup {g.animation_timer}
    IN  [g EXCEPT !.animation_timer = h]

\* timer.set_timeout hands out a handle no pending timer and no kept handle has
SetTimeout(g) ==
    LET h == CHOOSE i \in 1..(Cardinality(g.timers) + 2) :
                 /\ i \notin g.timers \cup {g.animation_timer}
                 /\ \A j \in 1..(i - 1) : j \in g.timers \cup {g.animation_timer}
    IN  [g EXCEPT !.animation_timer = h, !.timers = @ \cup {h}]

\* if self.animation_timer: timer.clear_timeout(self.animation_timer)
ClearTimeout(g) ==
    IF g.animation_timer # NONE THEN [g EXCEPT !.timers = @ \ {g.animation_timer}] ELSE g

StopSearchCall(g) == ClearTimeout([g EXCEPT !.is_animating = FALSE, !.is_paused = FALSE])

ClearPathCall(g) ==
    [g EXCEPT !.nodes = [n \in DOMAIN g.nodes |->
        [g.nodes[n] EXCEPT !.state =
            IF InList(g.goal_nodes, n) THEN "goal"
            ELSE IF n = g.source_node THEN "source"
            ELSE IF @ \in {"visited", "path"} THEN "empty"
            ELSE @]],
              !.display = NoDisplay]

\* the orders in which a run may pop the nodes
PopOrders(g) ==
    {q \in UNION {[1..k -> DOMAIN g.nodes] : k \in 1..Cardinality(DOMAIN g.nodes)} :
        /\ q[1] = g.source_node
        /\ \A i, j \in DOMAIN q : i # j => q[i] # q[j]}

\* the node tags after the first i pops of the run
TagsAfter(g, goal, order, i, ends, onpath) ==
    [n \in DOMAIN g.nodes |->
        IF ~InList(SubSeq(order, 1, i), n) THEN g.nodes[n].state
        ELSE IF n \in {g.source_node, goal} /\ ~ends THEN g.nodes[n].state
        ELSE IF i = Len(order) /\ order[i] = goal /\ (n \in onpath \/ n \in {g.source_node, goal})
        THEN "path"
        ELSE "visited"]

\* the agent's lists after its i-th pop: the nodes popped so far, the nodes
\* it has yet to pop, the path once the goal is popped last, and g, h, f of
\* the node popped
AgentAt(g, goal, order, i, onpath) ==
    [fringe_list |-> SubSeq(order, i + 1, Len(order)),
     visited_list |-> SubSeq(order, 1, i),
     traversal_array |-> SubSeq(order, 1, i),
     path_found |-> IF i = Len(order) /\ order[i] = goal
                    THEN SelectSeq(order, LAMBDA n : n \in onpath \cup {g.source_node, goal})
                    ELSE <<>>,
     current_node_info |-> [g |-> i - 1, h |-> g.nodes[order[i]].heuristic,
                            f |-> i - 1 + g.nodes[order[i]].heuristic]]

\* a slip capture_search_state could make: the agent's lists are stored, not
\* copies of them, so every snapshot shows the lists as the run left them
CaptureSearchStateByReference(g, goal, order, i, ends, onpath) ==
    LET a == AgentAt(g, goal, order, Len(order), onpath)
    IN  [fringe |-> a.fringe_list,
         visited |-> a.visited_list,
         traversal |-> a.traversal_array,
         path |-> a.path_found,
         node_states |-> TagsAfter(g, goal, order, i, ends, onpath),
         current_info |-> a.current_node_info]

\* capture_search_state after the i-th pop
CaptureSearchState(g, goal, order, i, ends, onpath) ==
    LET a == AgentAt(g, goal, order, i, onpath)
    IN  [fringe |-> a.fringe_list,
         visited |-> a.visited_list,
         traversal |-> a.traversal_array,
         path |-> a.path_found,
         node_states |-> TagsAfter(g, goal, order, i, ends, onpath),
         current_info |-> a.current_node_info]

\* what restore_search_state writes to the data panel
Shown(state) ==
    [fringe |-> state.fringe, visited |-> state.visited, traversal |-> state.traversal,
     path |-> state.path, current_info |-> state.current_info]

RestoreSearchState(g, state) ==
    [g EXCEPT !.display = Shown(state),
              !.nodes = [n \in DOMAIN g.nodes |->
                  IF n \in DOMAIN state.node_states
                  THEN [g.nodes[n] EXCEPT !.state = state.node_states[n]]
                  ELSE g.nodes[n]]]

\* one more call of animate_next_step, and what it did
Ticked(g, did) == [g EXCEPT !.tick = [n |-> @.n + 1, did |-> did, by |-> "call"]]

\* finish_gif_recording
FinishGifRecording(g) ==
    [g EXCEPT !.recording_gif = FALSE,
              !.alert = <<"GIF recording complete!", g.gif_frames>>]

AnimationComplete(g) ==
    LET g1 == [g EXCEPT !.is_animating = FALSE]
    IN  IF g1.recording_gif THEN FinishGifRecording(g1) ELSE g1

\* capture_gif_frame, when a recording is on
CaptureGifFrame(g) == IF g.recording_gif THEN [g EXCEPT !.gif_frames = @ + 1] ELSE g

\* a slip animate_next_step could make: is_paused is not looked at
AnimateNextStepIgnoresPause(g) ==
    IF ~g.is_animating THEN Ticked(g, "idle")
    ELSE IF g.current_state_index < Len(g.animation_states) - 1
    THEN Ticked(SetTimeout(CaptureGifFrame(RestoreSearchState(
             [g EXCEPT !.current_state_index = @ + 1],
             g.animation_states[g.current_state_index + 2]))), "shown")
    ELSE Ticked(AnimationComplete(g), "complete")

AnimateNextStepCall(g) ==
    IF ~g.is_animating \/ g.is_paused THEN Ticked(g, "idle")
    ELSE IF g.current_state_index < Len(g.animation_states) - 1
    THEN Ticked(SetTimeout(CaptureGifFrame(RestoreSearchState(
             [g EXCEPT !.current_state_index = @ + 1],
             g.animation_states[g.current_state_index + 2]))), "shown")
    ELSE Ticked(AnimationComplete(g), "complete")

StartRejected(g) ==
    IF DOMAIN g.nodes = {} THEN "Please add nodes to the graph first"
    ELSE IF g.source_node = NONE THEN "Please set a source node"
    ELSE IF Len(g.goal_nodes) = 0 THEN "Please set a goal node"
    ELSE ""

StartSearchCall(g, order, ends, onpath) ==
    IF StartRejected(g) # ""
    THEN [g EXCEPT !.alert = <<StartRejected(g), g.starts + 1>>, !.starts = @ + 1]
    ELSE LET g1 == ClearPathCall(StopSearchCall(g))
             goal == g1.goal_nodes[1]
             states == [i \in 1..Len(order) |->
                           CaptureSearchState(g1, goal, order, i, ends, onpath)]
             final == AgentAt(g1, goal, order, Len(order), onpath)
             g2 == [g1 EXCEPT !.search_agent =
                                  <<[source |-> g1.source_node, goal |-> goal,
                                     traversal_array |-> final.traversal_array,
                                     path_found |-> final.path_found]>>,
                              !.animation_states = states,
                              !.nodes = [n \in DOMAIN @ |->
                                  [@[n] EXCEPT !.state = states[Len(order)].node_states[n]]],
                              !.is_animating = TRUE,
                              !.is_paused = FALSE,
                              !.current_state_index = -1,
                              !.starts = @ + 1,
                              !.tick = [n |-> 0, did |-> "", by |-> ""]]
         IN  AnimateNextStepCall(g2)

StartSearch ==
    /\ gv.starts < MaxStarts
    /\ IF StartRejected(gv) # ""
       THEN gv' = StartSearchCall(gv, <<>>, FALSE, {})
       ELSE \E order \in PopOrders(gv), ends \in BOOLEAN, onpath \in SUBSET DOMAIN gv.nodes :
                gv' = StartSearchCall(gv, order, ends, onpath)
    /\ UNCHANGED engineVars

\* a pending timer fires: the browser calls animate_next_step
TimerFires ==
    \E h \in gv.timers :
        /\ gv' = [AnimateNextStepCall([gv EXCEPT !.timers = @ \ {h}])
                     EXCEPT !.tick.by = "timer"]
        /\ UNCHANGED engineVars

StopSearch ==
    /\ gv' = StopSearchCall(gv)
    /\ UNCHANGED engineVars

ClearPath == gv' = ClearPathCall(gv) /\ UNCHANGED engineVars

\* the new editor, or the editor after add_node, add_node, toggle_goal(node 1)
InitReplay ==
    /\ gv \in {NewGV,
                [ToggleGoalCall(AddNodeCall(AddNodeCall(NewGV)), 1) EXCEPT !.edits = 0]}
    /\ IdlePQ /\ IdleFS /\ last = NoCall
    /\ graph = <<>> /\ heur = <<>> /\ run = <<>> /\ sa = <<>>

NextReplay ==
    \/ AddNode
    \/ \E n \in DOMAIN gv.nodes : DeleteNode(n)
    \/ \E n \in DOMAIN gv.nodes : SetSource(n)
    \/ \E n \in DOMAIN gv.nodes : ToggleGoal(n)
    \/ StartSearch
    \/ TimerFires
    \/ StopSearch
    \/ ClearPath

SpecReplay == InitReplay /\ [][NextReplay]_vars

(***************************************************************************)
(* The replay controls: pause / resume, single steps, stop and the GIF     *)
(* export, which replays from the start.                                   *)
(***************************************************************************)
\* toggle_pause and the timer are explored below this many calls of
\* animate_next_step in one replay
MaxCalls == 3

TogglePauseCall(g) ==
    LET g1 == [g EXCEPT !.is_paused = ~@]
    IN  IF g1.is_paused THEN ClearTimeout(g1) ELSE AnimateNextStepCall(g1)

TogglePause ==
    /\ gv' = TogglePauseCall(gv)
    /\ UNCHANGED engineVars

StepForwardCall(g) ==
    IF Len(g.animation_states) > 0 /\ g.current_state_index < Len(g.animation_states) - 1
    THEN RestoreSearchState([g EXCEPT !.current_state_index = @ + 1],
                            g.animation_states[g.current_state_index + 2])
    ELSE g

StepForward == gv' = StepForwardCall(gv) /\ UNCHANGED engineVars

\* a slip step_backward could make: the cursor is taken back from 0 as well
StepBackwardPastStart(g) ==
    IF Len(g.animation_states) > 0 /\ g.current_state_index >= 0
    THEN IF g.current_state_index > 0
         THEN RestoreSearchState([g EXCEPT !.current_state_index = @ - 1],
                                 g.animation_states[g.current_state_index])
         ELSE [g EXCEPT !.current_state_index = @ - 1]
    ELSE g

StepBackwardCall(g) ==
    IF Len(g.animation_states) > 0 /\ g.current_state_index > 0
    THEN RestoreSearchState([g EXCEPT !.current_state_index = @ - 1],
                            g.animation_states[g.current_state_index])
    ELSE g

StepBackward == gv' = StepBackwardCall(gv) /\ UNCHANGED engineVars

\* export_gif: the replay is started again from the top; a timer that is
\* pending is not cleared
ExportGifCall(g) ==
    IF Len(g.animation_states) = 0
    THEN [g EXCEPT !.alert = <<"Please run a search first", g.starts + 1>>,
                   !.starts = @ + 1]
    ELSE AnimateNextStepCall(
             [g EXCEPT !.alert = <<"GIF export will begin", g.starts + 1>>,
                       !.starts = @ + 1,
                       !.tick = [n |-> 0, did |-> "", by |-> ""],
                       !.recording_gif = TRUE,
                       !.gif_frames = 0,
                       !.current_state_index = -1,
                       !.is_animating = TRUE,
                       !.is_paused = FALSE])

ExportGif ==
    /\ gv.starts < MaxStarts
    /\ gv' = ExportGifCall(gv)
    /\ UNCHANGED engineVars

\* the new editor, nodes 0 (source) and 1 (goal), or nodes 0 (source), 1 and
\* 2 (goal)
InitPlayback ==
    /\ gv \in {NewGV,
                [ToggleGoalCall(AddNodeCall(AddNodeCall(NewGV)), 1) EXCEPT !.edits = 0],
                [ToggleGoalCall(AddNodeCall(AddNodeCall(AddNodeCall(NewGV))), 2)
                    EXCEPT !.edits = 0]}
    /\ IdlePQ /\ IdleFS /\ last = NoCall
    /\ graph = <<>> /\ heur = <<>> /\ run = <<>> /\ sa = <<>>

NextPlayback ==
    \/ StartSearch
    \/ gv.tick.n < MaxCalls /\ TimerFires
    \/ StepForward
    \/ StepBackward
    \/ gv.tick.n < MaxCalls /\ TogglePause
    \/ StopSearch
    \/ ExportGif

SpecPlayback == InitPlayback /\ [][NextPlayback]_vars

(***************************************************************************)
(* A replay that is left alone: start_search and the timer callbacks, and  *)
(* every timer that is pending fires in the end.                           *)
(***************************************************************************)
NextAutoplay ==
    \/ StartSearch
    \/ TimerFires

SpecAutoplay == InitPlayback /\ [][NextAutoplay]_vars /\ WF_vars(TimerFires)

(***************************************************************************)
(* The graph under add_node, add_edge, delete_edge, delete_node, undo and  *)
(* redo, from the empty editor or from a graph that has a goal.            *)
(***************************************************************************)
NextGraph ==
    \/ AddNode
    \/ \E n \in DOMAIN gv.nodes : DeleteNode(n)
    \/ \E a, b \in DOMAIN gv.nodes : AddEdge(a, b)
    \/ \E a, b \in DOMAIN gv.nodes : DeleteEdge(a, b)
    \/ Undo
    \/ Redo

SpecGraph == InitReplay /\ [][NextGraph]_vars

(***************************************************************************)
(* Loading: reset_canvas, load_graph_from_data and the example loaders.    *)
(* None of them calls save_state.                                          *)
(***************************************************************************)
\* loads counts the graphs loaded and only bounds the run
MaxLoads == 2
MaxLoadEdits == 2

\* reset_canvas: nothing happens when window.confirm is declined
ResetCanvasCall(g, confirm) ==
    IF ~confirm THEN g
    ELSE StopSearchCall(ClearPathCall(
             [g EXCEPT !.nodes = <<>>, !.node_counter = 0,
                       !.source_node = NONE, !.goal_nodes = <<>>]))

ResetCanvas(confirm) == gv' = ResetCanvasCall(gv, confirm) /\ UNCHANGED engineVars

\* the nodes an example loader builds: node 0 is the source, the last the goal
ExampleNodes(ex) ==
    [i \in 0..(ex.n - 1) |->
        [heuristic |-> ex.h[i],
         state |-> IF i = 0 THEN "source" ELSE IF i = ex.n - 1 THEN "goal" ELSE "empty",
         neighbors |-> AdjOf(ex.n, ex.wt, FALSE)[i]]]

\* load_simple_example, load_tree_example, load_grid_example and
\* load_weighted_example: reset_canvas(None), then the nodes are stored under
\* 0..n-1 and node_counter is set to n, whatever reset_canvas did
LoadExampleCall(g, ex, confirm) ==
    LET g1 == ResetCanvasCall(g, confirm)
    IN  [g1 EXCEPT !.nodes = ExampleNodes(ex) @@ @,
                   !.source_node = 0,
                   !.goal_nodes = Append(@, ex.n - 1),
                   !.node_counter = ex.n]

LoadExample(ex, confirm) ==
    /\ gv.loads < MaxLoads
    /\ gv' = [LoadExampleCall(gv, ex, confirm) EXCEPT !.loads = @ + 1]
    /\ UNCHANGED engineVars

\* the files load_graph reads, as save_graph wrote them: node names need not
\* be 0..n-1, since deleted names are not given out again
GraphFiles ==
    {[nodes |-> <<>>, source |-> NONE, goals |-> <<>>],
     [nodes |-> <<[name |-> 3, heuristic |-> 1, state |-> "source", neighbors |-> <<>>]>>,
      source |-> 3, goals |-> <<>>],
     [nodes |-> <<[name |-> 2, heuristic |-> 0, state |-> "goal", neighbors |-> <<>>],
                  [name |-> 0, heuristic |-> 2, state |-> "source",
                   neighbors |-> <<[to |-> Str(2), w |-> 1]>>]>>,
      source |-> 0, goals |-> <<2>>]}

Max(a, b) == IF a > b THEN a ELSE b

\* the loop over data['graph']['nodes'] that creates the nodes
RECURSIVE LoadNodes(_, _, _)
LoadNodes(g, nds, i) ==
    IF i > Len(nds) THEN g
    ELSE LoadNodes([g EXCEPT
             !.nodes = (nds[i].name :> [heuristic |-> nds[i].heuristic,
                                         state |-> nds[i].state,
                                         neighbors |-> <<>>]) @@ @,
             !.node_counter = Max(@, nds[i].name + 1)], nds, i + 1)

\* load_graph_from_data: the graph is cleared, then nodes, edges, source and
\* goals are read
LoadGraphFromDataCall(g, data) ==
    LET g0 == [g EXCEPT !.nodes = <<>>, !.node_counter = 0,
                        !.source_node = NONE, !.goal_nodes = <<>>]
        g1 == LoadNodes(g0, data.nodes, 1)
        nbrs(k) == [i \in DOMAIN data.nodes[k].neighbors |->
                       [to |-> IntOf(data.nodes[k].neighbors[i].to),
                        w |-> data.nodes[k].neighbors[i].w]]
    IN  [g1 EXCEPT !.nodes = [n \in DOMAIN g1.nodes |->
                        LET k == CHOOSE j \in DOMAIN data.nodes : data.nodes[j].name = n
                        IN  [g1.nodes[n] EXCEPT !.neighbors = nbrs(k)]],
                   !.source_node = data.source,
                   !.goal_nodes = data.goals]

LoadGraphFromData(data) ==
    /\ gv.loads < MaxLoads
    /\ gv' = [LoadGraphFromDataCall(gv, data) EXCEPT !.loads = @ + 1]
    /\ UNCHANGED engineVars

NextLoad ==
    \/ gv.edits < MaxLoadEdits /\ AddNode
    \/ \E n \in DOMAIN gv.nodes : gv.edits < MaxLoadEdits /\ DeleteNode(n)
    \/ \E data \in GraphFiles : LoadGraphFromData(data)
    \/ \E confirm \in BOOLEAN : ResetCanvas(confirm)
    \/ \E ex \in Examples, confirm \in BOOLEAN : LoadExample(ex, confirm)
    \/ Undo
    \/ Redo

SpecLoad == InitEditor /\ [][NextLoad]_vars

(***************************************************************************)
(* Claims about the frontier structures.                                   *)
(***************************************************************************)
LiveEntries(q, n) == {i \in DOMAIN q.heap : q.heap[i].node = n}
Tombstones(q) == {i \in DOMAIN q.heap : q.heap[i].node = REMOVED}
Occurrences(s, x) == Cardinality({i \in DOMAIN s : s[i] = x})

\* C1: pushing an item that already has a live entry replaces that entry: the
\* queue's length does not grow, the item has exactly one live heap entry, it
\* carries the priority of the latest push, and popping the queue empty yields
\* the item once, at the place its latest priority (and push number) gives it.
C1_PushReplaces ==
    (last.op = "push" /\ last.wasLive) =>
        /\ PQLen(pq) = last.lenBefore
        /\ Cardinality(LiveEntries(pq, last.node)) = 1
        /\ \A i \in LiveEntries(pq, last.node) : pq.heap[i].priority = last.priority
        /\ Occurrences(DrainOrder(pq), last.node) = 1
        /\ DrainOrder(pq) = RefOrder(live)

\* C1's case: an item is pushed again with a lower priority than before and now
\* pops ahead of another live item that it used to follow.
C1_Witness ==
    /\ last.op = "push" /\ last.wasLive
    /\ last.priority < last.oldPriority
    /\ Len(DrainOrder(pq)) = 2
    /\ DrainOrder(pq)[1] = last.node
    /\ \E m \in DOMAIN live \ {last.node} : live[m].priority <= last.oldPriority
    /\ Tombstones(pq) # {}

\* C2: a pop on a queue with a live item raises nothing and returns the live
\* item of least priority, the earliest pushed among those of least priority.
C2_PopMin ==
    (last.op = "pop" /\ last.wasLive) =>
        /\ last.err = ""
        /\ last.ret = last.expect

\* C2's case: a pop decided by the tie-break: another live item has the
\* returned item's priority, and tombstones were pushed before.
C2_Witness ==
    /\ last.op = "pop" /\ last.wasLive /\ last.err = ""
    /\ \E m \in DOMAIN live : live[m].priority = last.priority
    /\ tomb # {}

\* C3: len, membership and is_empty count exactly the items pushed and not
\* since popped or removed, whatever tombstones the heap holds.
C3_LiveOnly ==
    /\ PQLen(pq) = Cardinality(DOMAIN live)
    /\ \A n \in Items : PQContains(pq, n) <=> n \in DOMAIN live
    /\ PQIsEmpty(pq) <=> DOMAIN live = {}

\* C3's case: the heap holds a tombstone beside a live entry.
C3_Witness ==
    /\ Tombstones(pq) # {}
    /\ PQLen(pq) > 0
    /\ Len(pq.heap) > PQLen(pq)

\* C4: what pop and peek return is an item, never the tombstone, through the
\* entry of that item's latest push, which was neither removed nor superseded;
\* and no entry is returned by pop twice.
C4_NoTombstone ==
    /\ (last.op \in {"pop", "peek"} /\ last.ret # NONE) =>
            /\ last.ret \in Items
            /\ \A t \in tomb : t.seq # last.count
            /\ last.count = last.retSeq
    /\ \A i, j \in DOMAIN popped : i # j => popped[i] # popped[j]

\* C4's case: pop returns an item that was removed and pushed again.
C4_Witness ==
    /\ last.op = "pop" /\ last.ret \in Items
    /\ \E t \in tomb : t.node = last.ret /\ t.seq < last.count
    /\ Len(pq.heap) > 0

\* C5: the items popped from the queue, in order, are a prefix of the items
\* pushed, and each pop returns the earliest push not yet popped.
C5_Fifo ==
    /\ Len(outs) <= Len(pushed)
    /\ \A i \in DOMAIN outs : outs[i] = pushed[i]
    /\ (last.op = "qpop" /\ last.wasLive) => (last.err = "" /\ last.ret = last.expect)

\* C5's case: pushes and pops interleaved, with two different items.
C5_Witness ==
    /\ last.op = "qpop" /\ last.err = ""
    /\ Len(outs) = 2 /\ outs[1] # outs[2]
    /\ Len(pushed) = 3 /\ Len(queue) = 1

\* C6: a pop of the stack returns the most recently pushed item not yet popped.
C6_Lifo ==
    (last.op = "spop" /\ last.wasLive) => (last.err = "" /\ last.ret = last.expect)

\* C6's case: a pop that returns an older push, the later ones being popped already.
C6_Witness ==
    /\ last.op = "spop" /\ last.err = ""
    /\ last.count < Len(pushed)
    /\ last.ret # pushed[Len(pushed)]

(***************************************************************************)
(* Claims about the search strategies.                                     *)
(***************************************************************************)
Finished == sa.pc = "done"
Optimal == /\ sa.success
           /\ IsPath(sa.path_found)
           /\ sa.path_cost = CostOf(sa.path_found)
           /\ sa.path_cost = CostFrom(run.source)[run.goal]

\* C7: with nonnegative weights and an admissible heuristic, A* ends with a
\* least-cost path from the source to the goal whenever the goal is reachable.
C7_AStarOptimal ==
    (run.algo = "astar" /\ Finished /\ CostFrom(run.source)[run.goal] < Infinity) => Optimal

\* C8: with nonnegative weights, uniform-cost search ends with a least-cost
\* path from the source to the goal whenever the goal is reachable.
C8_UCSOptimal ==
    (run.algo = "ucs" /\ Finished /\ CostFrom(run.source)[run.goal] < Infinity) => Optimal

\* C8's case: the goal is first pushed over the direct edge and later replaced
\* in the queue by a cheaper path through another vertex, which is returned.
C8_Witness ==
    /\ run.algo = "ucs" /\ Finished /\ sa.success
    /\ HasEdge(run.source, run.goal)
    /\ Len(sa.path_found) = 3
    /\ sa.path_cost < Weight(run.source, run.goal)
    /\ Tombstones(pq) # {}

Fewest == /\ sa.success
          /\ IsPath(sa.path_found)
          /\ Len(sa.path_found) - 1 = HopsFrom(run.source)[run.goal]

\* C9: on a graph whose edges all weigh 1, breadth-first search ends with a
\* path of the fewest edges from the source to the goal whenever the goal is
\* reachable.
C9_BFSFewestEdges ==
    (run.algo = "bfs" /\ Finished /\ HopsFrom(run.source)[run.goal] < Infinity) => Fewest

\* C9's case: the goal is generated two edges from the source in a graph that
\* also holds a longer way to it.
C9_Witness ==
    /\ run.algo = "bfs" /\ Finished /\ sa.success
    /\ Len(sa.path_found) = 3
    /\ \E v \in Vertices : /\ v \notin {sa.path_found[1], sa.path_found[2], sa.path_found[3]}
                           /\ HasEdge(run.source, v)
                           /\ HasEdge(v, sa.path_found[2])

\* C10: on a graph whose edges all weigh 1 and whose goal is within max_depth
\* edges of the source, iterative deepening ends with a path of the fewest edges.
C10_IDSFewestEdges ==
    (run.algo = "ids" /\ Finished /\ HopsFrom(run.source)[run.goal] <= run.depth) => Fewest

C12_PathEnds ==
    sa.success =>
        /\ Len(sa.path_found) >= 1
        /\ sa.path_found[1] = run.source
        /\ sa.path_found[Len(sa.path_found)] = run.goal

\* C12's case: a bidirectional run joined at a vertex that is neither the
\* source nor the goal, both parent chains contributing an edge.
C12_Witness ==
    /\ run.algo = "bidirectional" /\ sa.success
    /\ sa.meet \notin {run.source, run.goal}
    /\ Len(sa.path_found) >= 4

C14_EmptyUntilAccepted ==
    /\ ~sa.success => sa.path_found = <<>>
    /\ sa.pc \in {"run", "done"}
    /\ (Finished /\ ~sa.success) => sa.path_found = <<>>

\* C14's case: a uniform-cost run that ends without the goal while the heap
\* still holds the tombstone of a replaced entry.
C14_Witness ==
    /\ run.algo = "ucs" /\ Finished /\ ~sa.success
    /\ Tombstones(pq) # {}
    /\ sa.nodes_explored >= 3

IsPrefix(a, b) == Len(a) <= Len(b) /\ \A i \in DOMAIN a : a[i] = b[i]
NoRepeat(s) == \A i, j \in DOMAIN s : i # j => s[i] # s[j]

\* C15: the visited-order list never holds a vertex twice, and every step
\* extends the list of the step before; only the start of a new depth
\* iteration of IDS empties it.
C15_VisitedAppendOnly ==
    /\ [](NoRepeat(sa.visited_list))
    /\ [][IsPrefix(sa.visited_list, sa'.visited_list) \/ sa'.limit # sa.limit]_vars

\* C15's case: a depth-first run that has visited a vertex with two visited
\* predecessors and holds no further stack entry of it.
C15_Witness ==
    /\ run.algo = "dfs"
    /\ Len(sa.visited_list) >= 3
    /\ Len(sa.visited_list) = Len(sa.traversal_array)
    /\ \E v \in sa.visited : /\ Cardinality({u \in sa.visited : HasEdge(u, v)}) >= 2
                              /\ \A i \in DOMAIN stack : stack[i][1] # v

\* The work a run has left: the depth iterations still to start, the vertices
\* either side has yet to mark visited (each can add at most every edge's
\* target to a frontier), the frontier entries still to pop, and the end of
\* the generator.
RECURSIVE SumLen(_, _)
SumLen(f, S) ==
    IF S = {} THEN 0
    ELSE LET x == CHOOSE y \in S : TRUE IN Len(f[x]) + SumLen(f, S \ {x})

IterationWork == (SumLen(graph, Nodes) + 1) * Cardinality(Nodes) + 2

Measure ==
    (IF run.algo = "ids" THEN (run.depth - sa.limit) * IterationWork ELSE 0)
    + (SumLen(graph, Nodes) + 1) * (Cardinality(Nodes \ sa.visited) + Cardinality(Nodes \ sa.bvisited))
    + Len(queue) + Len(sa.bqueue) + Len(stack) + Len(pq.heap)
    + (IF sa.pc = "run" THEN 1 ELSE 0)

LineGraph == AdjOf(SimpleExample.n, SimpleExample.wt, FALSE)

Common == sa.visited \cap sa.bvisited

\* C19: a step of bidirectional search pops the head of the forward frontier
\* and then the head of the backward frontier (the second only if the first
\* expansion did not end the run); the run ends with success at the first
\* step that leaves a vertex visited by both sides, that vertex is the
\* meeting vertex, and no step follows; on the line graph 0-1-2-3-4 with
\* source 0 and goal 4 the meeting vertex is 2, the path [0,1,2,3,4], the
\* cost 4.
C19_MeetsAndStops ==
    /\ []((sa.pc = "run" /\ sa.traversal_array # <<>>) => Common = {})
    /\ []((Finished /\ sa.success) => Common = {sa.meet})
    /\ []((graph = LineGraph /\ run.goal = 4 /\ Finished) =>
            /\ sa.meet = 2
            /\ sa.path_found = <<0, 1, 2, 3, 4>>
            /\ sa.path_cost = 4)
    /\ [][/\ sa.pc = "run"
          /\ Common' # {} => (sa'.pc = "done" /\ sa'.success)
          /\ (Common = {} /\ queue # <<>> /\ sa.bqueue # <<>>) =>
                \/ sa'.traversal_array = sa.traversal_array \o <<queue[1], sa.bqueue[1]>>
                \/ /\ sa'.traversal_array = Append(sa.traversal_array, queue[1])
                   /\ sa'.pc = "done" /\ sa'.success]_vars

C19_Witness ==
    /\ graph = LineGraph /\ run.goal = 4 /\ Finished
    /\ sa.meet = 2 /\ sa.traversal_array = <<0, 4, 1, 3>>

\* the fewest edges of a path from a to b within k edges, Infinity if there is none
RECURSIVE Hops(_, _, _)
Hops(a, b, k) ==
    IF a = b THEN 0
    ELSE IF k = 0 THEN Infinity
    ELSE LET ds == {Hops(Targets(graph[a])[i], b, k - 1) : i \in 1..Len(graph[a])}
             least == IF ds = {} THEN Infinity ELSE CHOOSE d \in ds : \A e \in ds : d <= e
         IN  IF least >= Infinity THEN Infinity ELSE least + 1

UnitWeights == \A u \in Nodes : \A i \in 1..Len(graph[u]) : graph[u][i].w = 1

\* C20: on a unit-weight graph in which the goal is reachable, the path
\* bidirectional search returns has the fewest edges of all paths from the
\* source to the goal.
C20_BidirectionalOptimal ==
    (run.algo = "bidirectional" /\ Finished /\ UnitWeights
        /\ Hops(SourceId, run.goal, Cardinality(Nodes) - 1) < Infinity) =>
        /\ sa.success
        /\ Len(sa.path_found) - 1 = Hops(SourceId, run.goal, Cardinality(Nodes) - 1)

GoalHops == Hops(SourceId, run.goal, Cardinality(Nodes) - 1)

\* C21: iterative deepening starts with limit 0 and raises the limit by one
\* at a time, only when the iteration in progress has emptied its stack
\* without success, and never above max_depth; a run that fails has run the
\* limit max_depth, and when the goal is more than max_depth edges from the
\* source the run fails, after every limit 0..max_depth.
C21_LimitsInOrder ==
    /\ [](run.algo = "ids" => (0 <= sa.limit /\ sa.limit <= run.depth))
    /\ []((run.algo = "ids" /\ sa.nodes_explored = 0) => sa.limit = 0)
    /\ []((run.algo = "ids" /\ Finished /\ ~sa.success) => sa.limit = run.depth)
    /\ []((run.algo = "ids" /\ Finished /\ GoalHops > run.depth) =>
            (~sa.success /\ sa.limit = run.depth))
    /\ [][run.algo = "ids" =>
            \/ sa'.limit = sa.limit
            \/ /\ sa'.limit = sa.limit + 1
               /\ stack = <<>> /\ ~sa.success /\ ~sa'.success
               /\ sa'.pc = "run" /\ sa'.traversal_array = <<>>]_vars

\* C21's case (scenario D): max_depth 2, the goal 3 edges from the source,
\* the run over after the limits 0, 1 and 2.
C21_Witness ==
    /\ run.algo = "ids" /\ run.depth = 2 /\ GoalHops = 3
    /\ Finished /\ ~sa.success /\ sa.limit = 2 /\ sa.nodes_explored = 6

\* the items a FIFO queue yields when it is popped until it raises
RECURSIVE QueueDrainOrder(_)
QueueDrainOrder(items) ==
    LET r == QueuePop(items)
    IN  IF r.err # "" THEN <<>> ELSE <<r.ret>> \o QueueDrainOrder(r.items)

\* C23: get_all_nodes lists the frontier in the order in which it would be
\* popped: the priority queue's live items by (priority, insertion), the
\* FIFO queue's items by insertion.
C23_ListedAsPopped ==
    /\ PQGetAllNodes(pq) = DrainOrder(pq)
    /\ QueueGetAllNodes(queue) = QueueDrainOrder(queue)

\* what the editor's graph is: nodes with their heuristic, tag and edges,
\* node_counter, source and goals
GraphOf(g) ==
    [nodes |-> g.nodes, node_counter |-> g.node_counter,
     source_node |-> g.source_node, goal_nodes |-> g.goal_nodes]

Edited == gv'.edits = gv.edits + 1

\* C24: undo() called right after an editing operation restores the graph
\* the operation was applied to.
C24_UndoRestores == [][Edited => GraphOf(UndoCall(gv')) = GraphOf(gv)]_vars

\* C28: every operation that calls save_state leaves the redo stack empty, so
\* redo() called right after it changes nothing.
C28_EditClearsRedo ==
    [][Edited => gv'.redo_stack = <<>> /\ RedoCall(gv') = gv']_vars

\* An edit made after an undo: fewer saved states than edits, nothing to redo.
C28_Witness ==
    /\ gv.edits >= 2
    /\ Len(gv.undo_stack) < gv.edits
    /\ Len(gv.undo_stack) > 0
    /\ gv.redo_stack = <<>>

Undone == Len(gv.undo_stack) > 0 /\ gv' = UndoCall(gv)

C30_SourceNotGoal ==
    gv.source_node = NONE \/ ~InList(gv.goal_nodes, gv.source_node)

\* C27: the undo stack never holds more than 50 entries, whatever the
\* interleaving of editing operations, undo and redo.
C27_UndoStackBounded == Len(gv.undo_stack) <= UndoLimit

\* The stack is full, its oldest entry (the graph right after add_node, with
\* heuristic 0) has been dropped, and an edit was made since.
C27_Witness ==
    /\ Len(gv.undo_stack) = UndoLimit
    /\ gv.edits > 0
    /\ gv.undo_stack[1].nodes[Str(0)].heuristic # 0

\* C25: call by call, the queue answers as an eager-removal queue does, one
\* that holds just the outstanding items (live): push raises nothing, remove
\* raises KeyError exactly for an item that is not outstanding, pop raises
\* KeyError exactly when nothing is outstanding and otherwise returns the
\* least outstanding item, peek returns that item or None, and len and
\* membership answer for the outstanding items.
C25_SameAsEager ==
    /\ last.op = "push" => last.err = ""
    /\ last.op = "remove" => ((last.err = "KeyError") <=> ~last.wasLive)
    /\ last.op = "pop" =>
            IF last.expect = NONE
            THEN last.err = "KeyError"
            ELSE last.err = "" /\ last.ret = last.expect
    /\ last.op = "peek" => (last.err = "" /\ last.ret = last.expect)
    /\ PQLen(pq) = Cardinality(DOMAIN live)
    /\ \A n \in Items : PQContains(pq, n) <=> n \in DOMAIN live
    /\ PQPeek(pq).ret = RefMin(live)

\* C25's case: pop has discarded the tombstone of another item, pushed before
\* the item it returned, and no entry is left in the heap.
C25_Witness ==
    /\ last.op = "pop" /\ last.err = ""
    /\ \E t \in tomb : t.seq < last.count /\ t.node # last.ret
    /\ pq.heap = <<>>

OnStack(n) == \E i \in DOMAIN stack : stack[i][1] = n

DLSPops ==
    /\ run.algo = "dls" /\ sa.pc = "run" /\ ~StackIsEmpty(stack)
    /\ PopUnvisited(stack, sa.visited).err = ""

\* C26: depth-limited search holds no stack entry deeper than depth_limit, so
\* it never pops one; a vertex popped at depth_limit has no neighbour pushed;
\* and a popped vertex that is the goal is accepted, at depth_limit as well.
C26_DepthLimited ==
    /\ [](run.algo = "dls" => \A i \in DOMAIN stack : stack[i][2] <= sa.limit)
    /\ [][DLSPops =>
            LET r == PopUnvisited(stack, sa.visited)
            IN  /\ r.ret[2] <= sa.limit
                /\ r.ret[2] = sa.limit => stack' = r.items
                /\ r.ret[1] = run.goal => (sa'.success /\ sa'.pc = "done")
                /\ sa'.traversal_array = Append(sa.traversal_array, r.ret[1])]_vars

\* C26's case: the goal was accepted depth_limit edges from the source, and
\* a vertex popped at the limit before it was left unexpanded: its neighbour
\* was neither visited nor pushed.
C26_Witness ==
    /\ run.algo = "dls" /\ sa.success /\ sa.limit >= 1
    /\ Len(sa.path_found) - 1 = sa.limit
    /\ \E v \in sa.visited \ {run.goal} : \E i \in DOMAIN graph[v] :
           graph[v][i].to \notin sa.visited /\ ~OnStack(graph[v][i].to)

StartCalled == gv'.starts = gv.starts + 1

\* start_search on an empty graph, without a source or without a goal shows
\* a dialog and leaves search_agent, animation_states, current_state_index,
\* is_animating and the nodes as they were
ListedCasesRejected ==
    (DOMAIN gv.nodes = {} \/ gv.source_node = NONE \/ gv.goal_nodes = <<>>) =>
        /\ gv'.alert[1] # "" /\ gv'.alert[2] = gv'.starts
        /\ gv'.search_agent = gv.search_agent
        /\ gv'.animation_states = gv.animation_states
        /\ gv'.current_state_index = gv.current_state_index
        /\ gv'.is_animating = gv.is_animating
        /\ gv'.nodes = gv.nodes

C22_ListedCases == [][StartCalled => ListedCasesRejected]_vars

\* a start_search that shows no dialog has a source and a goal in the graph
AcceptedHasEnds ==
    gv'.alert = gv.alert =>
        /\ Len(gv'.search_agent) = 1
        /\ gv'.search_agent[1].source \in DOMAIN gv.nodes
        /\ gv'.search_agent[1].goal \in DOMAIN gv.nodes

\* C22: a run whose source or goal is missing is rejected when start_search
\* is called: on an empty graph, without a source or without a goal,
\* start_search creates no agent and leaves search_agent, animation_states,
\* current_state_index, is_animating and every node's state unchanged, and a
\* start_search that goes ahead has its source and its goal in the graph.
C22_RejectedAtStart ==
    [][StartCalled => ListedCasesRejected /\ AcceptedHasEnds]_vars

EmptyTarget ==
    /\ last'.op \in {"remove", "pop", "peek", "qpop", "qpeek", "spop", "speek"}
    /\ ~last'.wasLive

LiveContentsKept ==
    /\ PQLen(pq') = PQLen(pq)
    /\ \A n \in Items : PQContains(pq', n) <=> PQContains(pq, n)
    /\ DrainOrder(pq') = DrainOrder(pq)
    /\ queue' = queue
    /\ stack' = stack

\* C38: remove of an item that is not outstanding and pop on a priority
\* queue with nothing outstanding raise KeyError, pop on an empty queue or
\* stack raises IndexError, peek on an empty structure returns None and
\* raises nothing, and each of these calls leaves the live contents as they
\* were.
C38_FailsUnchanged ==
    [][EmptyTarget =>
        /\ last'.op \in {"remove", "pop"} => last'.err = "KeyError"
        /\ last'.op \in {"qpop", "spop"} => last'.err = "IndexError"
        /\ last'.op \in {"peek", "qpeek", "speek"} =>
                (last'.err = "" /\ last'.ret = NONE)
        /\ LiveContentsKept]_vars

\* C38's case: pop raised KeyError on a priority queue that had been pushed
\* to, whose entries were all tombstones by then; no pop had ever succeeded.
C38_Witness ==
    /\ last.op = "pop" /\ last.err = "KeyError"
    /\ tomb # {} /\ popped = <<>>
    /\ pq.heap = <<>>

\* what the next pop returns; NONE if it raises
NextPop(q) == LET r == PQPop(q) IN IF r.err = "" THEN r.ret ELSE NONE

\* C39: peek returns the item the next pop returns (None when that pop would
\* raise), and len, membership and the order of the pops to come are after
\* the peek what they were before it.
C39_PeekIsNextPop ==
    [][last'.op = "peek" =>
        /\ last'.err = ""
        /\ last'.ret = NextPop(pq')
        /\ PQLen(pq') = PQLen(pq)
        /\ \A n \in Items : PQContains(pq', n) <=> PQContains(pq, n)
        /\ DrainOrder(pq') = DrainOrder(pq)]_vars

\* C39's case: peek returned an item pushed after another item that was
\* tombstoned, and no tombstone is left in the heap although no pop has
\* succeeded yet.
C39_Witness ==
    /\ last.op = "peek" /\ last.ret \in Items
    /\ \E t \in tomb : t.seq < last.count /\ t.node # last.ret
    /\ Tombstones(pq) = {} /\ popped = <<>>

NoDuplicateGoal ==
    \A i, j \in DOMAIN gv.goal_nodes : i # j => gv.goal_nodes[i] # gv.goal_nodes[j]

\* a toggle_goal that changed something took the node into goal_nodes or out
\* of it
ToggleFlips ==
    \A n \in DOMAIN gv.nodes :
        gv' = ToggleGoalCall(gv, n) =>
            (InList(gv'.goal_nodes, n) <=> ~InList(gv.goal_nodes, n))

\* C31: goal_nodes never holds a node twice, and a node is in goal_nodes
\* exactly when toggle_goal was applied to it an odd number of times (each
\* toggle_goal flips its membership), whatever add_node, set_source,
\* toggle_goal, clear_path and search runs came before.
C31_GoalNodesIsSet == []NoDuplicateGoal /\ [][ToggleFlips]_vars

\* C34: the replay cursor stays in range under every interleaving of
\* start_search, timer callbacks, step_forward, step_backward, toggle_pause,
\* stop_search and export_gif: -1 <= current_state_index <=
\* len(animation_states) - 1, and step_backward never takes it below 0.
C34_CursorInRange ==
    /\ -1 <= gv.current_state_index
    /\ gv.current_state_index <= Len(gv.animation_states) - 1
    /\ StepBackwardCall(gv).current_state_index >= 0 \/ StepBackwardCall(gv) = gv

\* The cursor is on the first snapshot after it was on a later one, and
\* step_backward leaves it there.
C34_Witness ==
    /\ gv.current_state_index = 0
    /\ Len(gv.animation_states) >= 2
    /\ gv.tick.n >= 2
    /\ StepBackwardCall(gv) = gv

\* the browser runs the callback of timer h while the replay is paused or
\* not running
IdleCallback(h) ==
    /\ h \in gv.timers
    /\ gv.is_paused \/ ~gv.is_animating
    /\ gv' = [AnimateNextStepCall([gv EXCEPT !.timers = @ \ {h}]) EXCEPT !.tick.by = "timer"]

\* C37: while is_paused is true or is_animating is false a timer callback
\* that fires changes neither current_state_index nor what is displayed and
\* schedules no further timer; stop_search leaves animation_states and
\* current_state_index as they are.
C37_PausedCallbackIdle ==
    [][/\ \A h \in gv.timers : IdleCallback(h) =>
              /\ gv'.current_state_index = gv.current_state_index
              /\ gv'.display = gv.display
              /\ gv'.nodes = gv.nodes
              /\ gv'.timers = gv.timers \ {h}
              /\ gv'.animation_timer = gv.animation_timer
       /\ gv' = StopSearchCall(gv) =>
              /\ gv'.animation_states = gv.animation_states
              /\ gv'.current_state_index = gv.current_state_index]_vars

\* The latest call of animate_next_step came from a timer and did nothing:
\* the replay is paused with snapshots left to show.
C37_Witness ==
    /\ gv.tick.by = "timer" /\ gv.tick.did = "idle"
    /\ gv.is_paused /\ gv.is_animating
    /\ gv.current_state_index < Len(gv.animation_states) - 1

\* snapshot i holds the agent's lists as they were after step i
SnapshotsKept ==
    Len(gv.search_agent) = 1 =>
        LET order == gv.search_agent[1].traversal_array
            states == gv.animation_states
        IN  /\ Len(states) = Len(order)
            /\ \A i \in DOMAIN states :
                   /\ states[i].traversal = SubSeq(order, 1, i)
                   /\ states[i].visited = SubSeq(order, 1, i)
                   /\ states[i].fringe = SubSeq(order, i + 1, Len(order))
                   /\ states[i].path =
                          (IF i = Len(order) THEN gv.search_agent[1].path_found ELSE <<>>)
                   /\ states[i].current_info.g = i - 1

\* g shows snapshot i: the data panel, and the tag of every node of the
\* snapshot that is still in the graph
Displays(g, i) ==
    /\ g.display = Shown(g.animation_states[i])
    /\ \A n \in DOMAIN g.nodes \cap DOMAIN g.animation_states[i].node_states :
           g.nodes[n].state = g.animation_states[i].node_states[n]

\* step_forward and then step_backward show the snapshot under the cursor
BackToSameDisplay ==
    (0 <= gv.current_state_index /\ gv.current_state_index < Len(gv.animation_states) - 1) =>
        LET g2 == StepBackwardCall(StepForwardCall(gv))
        IN  /\ g2.current_state_index = gv.current_state_index
            /\ g2.animation_states = gv.animation_states
            /\ Displays(g2, gv.current_state_index + 1)

\* only an accepted start_search changes the snapshots, and a step that
\* moves the cursor to i shows snapshot i
SnapshotStep ==
    /\ gv'.animation_states # gv.animation_states =>
           StartCalled /\ gv'.alert = gv.alert
    /\ (gv'.current_state_index # gv.current_state_index /\ gv'.current_state_index >= 0) =>
           Displays(gv', gv'.current_state_index + 1)

PlaybackDone ==
    /\ ~gv.is_animating
    /\ gv.current_state_index = Len(gv.animation_states) - 1
    /\ gv.tick.did = "complete"
    /\ gv.tick.n = Len(gv.animation_states) + 1
    /\ gv.timers = {}

\* the replay is on its way: every call so far has shown one snapshot
PlaybackRunning ==
    /\ gv.is_animating
    /\ gv.tick.did = "shown"
    /\ gv.tick.n = gv.current_state_index + 1
    /\ gv.tick.n <= Len(gv.animation_states)

\* C35: after start_search, if the replay is never paused or stopped and
\* every scheduled timer fires in the end, the cursor reaches the last
\* snapshot and then is_animating becomes false: animation_complete runs
\* once, in call number len(animation_states) + 1 of animate_next_step.
C35_PlaybackCompletes ==
    /\ [](Len(gv.search_agent) = 1 => PlaybackRunning \/ PlaybackDone)
    /\ gv.is_animating ~> PlaybackDone

\* A replay of three snapshots has run to its end.
C35_Witness ==
    /\ PlaybackDone
    /\ Len(gv.animation_states) = 3
    /\ gv.tick.n = 4

\* C36: at most one animation timer is pending at any time, under every
\* interleaving of start_search, toggle_pause, stop_search, export_gif and
\* timer callbacks.
C36_OneTimer == Cardinality(gv.timers) <= 1

\* C32: after any sequence of add_node, add_edge, delete_edge, delete_node,
\* undo and redo nothing dangles: every edge leads to a node of the graph,
\* source_node is None or a node of the graph, and every entry of goal_nodes
\* is a node of the graph.
C32_NoDangling ==
    /\ \A n \in DOMAIN gv.nodes : \A i \in DOMAIN gv.nodes[n].neighbors :
           gv.nodes[n].neighbors[i].to \in DOMAIN gv.nodes
    /\ gv.source_node = NONE \/ gv.source_node \in DOMAIN gv.nodes
    /\ \A i \in DOMAIN gv.goal_nodes : gv.goal_nodes[i] \in DOMAIN gv.nodes

\* Node 1 was a goal and the target of an edge from node 0; it has been
\* deleted and an undo has run since.
C32_Witness ==
    /\ 0 \in DOMAIN gv.nodes /\ 1 \notin DOMAIN gv.nodes
    /\ Len(gv.redo_stack) > 0
    /\ \E i \in DOMAIN gv.undo_stack :
           LET s == gv.undo_stack[i]
           IN  /\ InList(s.goals, 1)
               /\ Str(0) \in DOMAIN s.nodes
               /\ HasNeighbor(s.nodes[Str(0)].neighbors, Str(1))

\* C33: node_counter is greater than the id of every vertex in every state
\* reached by add_node, delete_node, load_graph_from_data, reset_canvas,
\* example loading, undo and redo.
C33_CounterAboveIds == \A n \in DOMAIN gv.nodes : n < gv.node_counter
====
